---- MODULE Spec2Model ----
(***************************************************************************)
(* Verification model of the shared helpers of the CXLSSDEval scripts      *)
(* (scripts/plot_utils.py) and of the result validator                     *)
(* (scripts/validate_results.py).                                          *)
(*                                                                         *)
(* The scripts are batch programs: every helper is a function of the files *)
(* it reads.  Each helper has its own specification: Init draws the files  *)
(* from a bounded set and the action applies the helper as the code does.  *)
(***************************************************************************)
EXTENDS Integers, Sequences, FiniteSets, TLC

VARIABLES
    fsDirs,      \* resolver: the directories that exist under base_dir
    subdir,      \* resolver: the argument of the last resolve_cxl_path call
    resolved,    \* resolver: the value the last call returned
    raw,         \* load_fio_json: the text of the file, a sequence of tokens
    loaded,      \* load_fio_json: the outcome of the call
    section,     \* from_job_section: the read or write section of a job
    fm,          \* from_job_section: the FioMetrics record it built
    data,        \* load_fio_job_metrics: the outcome of load_fio_json on the file
    metrics,     \* load_fio_job_metrics: the outcome of the call
    samsung_csv, \* infer_cxl_uplift: the Samsung summary file, None when absent
    cxl_csv,     \* infer_cxl_uplift: the CXL summary file, None when absent
    uplift,      \* infer_cxl_uplift: the outcome of the call
    results,     \* validator: the result files, path |-> what json.load gives
    logs,        \* validator: the log files, path |-> what read() gives
    dirs,        \* validator: the directories that exist at and beside results_dir
    thresholds,  \* validator: self.thresholds
    errors,      \* validator: self.errors
    warnings,    \* validator: self.warnings
    info,        \* validator: self.info
    lastCall,    \* validator: the last operation, its argument and outcome
    calls,       \* validator: the number of operations made so far
    test_data,   \* report generator: self.test_data
    collected,   \* report generator: the outcome of collect_test_data
    orch_pc,     \* orchestrator: where main is (start, loop, done, raised)
    script_i,    \* orchestrator: the position of the loop in scripts_to_run
    imported,    \* orchestrator: the scripts imported and called so far
    successful_plots, \* orchestrator: the descriptions of the scripts that returned
    failed_plots, \* orchestrator: the descriptions and errors of those that raised
    paths,       \* axis discovery: the roots passed, one per vendor
    axis,        \* axis discovery: the function that ran and its outcome
    bs_dirs,     \* block-size chart: the vendors' result directories
    bs_loaded,   \* block-size chart: the outcome of load_blocksize_data
    complete,    \* charts: the directories that hold every result file of their test
    config,      \* charts: the cxl root config_path.yaml gives, None without one
    chart,       \* charts: the script that ran and its outcome
    summary_metrics, \* report generator: self.summary_metrics
    recommendations, \* report generator: the outcome of generate_recommendations
    output_format, \* report generator: self.output_format
    output_file, \* report generator: the argument of generate_report
    written,     \* report generator: the files written, name |-> content
    generated,   \* report generator: the outcome of generate_report
    euid,        \* monitor: os.geteuid()
    device_path, \* monitor: what is at the device path (absent, nopmr, pmr)
    sysfs,       \* monitor: the counter files, name |-> what reading gives
    mon_args,    \* monitor: the parsed arguments of main
    mon_pc,      \* monitor: where main is
    clock,       \* monitor: time.time()
    start_time,  \* monitor: start_time of monitor_continuous
    last_counts, \* monitor: last_reads and last_writes
    stats,       \* monitor: self.stats
    sample,      \* monitor: what the last monitor_once returned
    sampled,     \* monitor: the counters at the start and at each sample
    trace,       \* monitor: the checks, samples and outputs made so far
    exit_code    \* monitor: the status main ended with (None while running)

resolverVars == <<fsDirs, subdir, resolved>>
loadVars == <<raw, loaded>>
sectionVars == <<section, fm>>
metricsVars == <<data, metrics>>
upliftVars == <<samsung_csv, cxl_csv, uplift>>
validatorVars == <<results, logs, dirs, thresholds, errors, warnings, info,
                   lastCall, calls>>
reportVars == <<test_data, collected>>

orchestratorVars == <<orch_pc, script_i, imported, successful_plots, failed_plots>>

axisVars == <<paths, axis>>

blocksizeVars == <<bs_dirs, bs_loaded>>

chartVars == <<complete, config, chart>>

recommendVars == <<summary_metrics, recommendations>>

reportOutVars == <<output_format, output_file, written, generated>>

monitorVars == <<euid, device_path, sysfs, mon_args, mon_pc, clock, start_time,
                 last_counts, stats, sample, sampled, trace, exit_code>>

vars == <<fsDirs, subdir, resolved, raw, loaded, section, fm, data, metrics,
          samsung_csv, cxl_csv, uplift,
          results, logs, dirs, thresholds, errors, warnings, info, lastCall, calls,
          test_data, collected,
          orch_pc, script_i, imported, successful_plots, failed_plots,
          paths, axis, bs_dirs, bs_loaded, complete, config, chart,
          summary_metrics, recommendations,
          output_format, output_file, written, generated,
          euid, device_path, sysfs, mon_args, mon_pc, clock, start_time,
          last_counts, stats, sample, sampled, trace, exit_code>>

\* Python's None (every modelled value is a tuple, a record or a number).
None == <<>>

\* A call that has not happened yet.
NotCalled == <<"not called">>

\* The outcome of a call: not made yet, a returned value, a raised exception.
Pending == [st |-> "pending"]
Return(v) == [st |-> "return", val |-> v]
Raise(e) == [st |-> "raise", exc |-> e]

(***************************************************************************)
(* resolve_cxl_path                                                        *)
(***************************************************************************)

\* The test names the plotting scripts resolve.
Subdirs == {"access_pattern", "rwmix"}

\* (mutation of Candidates: the legacy layouts are probed first)
Candidates_LegacyFirst(sd) ==
    << <<"cxl_raw", "raw", sd>>,
       <<"cxl_raw", sd>>,
       <<"true_cxl_raw", "raw", sd>> >>

\* candidates, in the order the list literal gives them.
Candidates(sd) ==
    << <<"true_cxl_raw", "raw", sd>>,
       <<"cxl_raw", "raw", sd>>,
       <<"cxl_raw", sd>> >>

\* Every directory a probe can hit.
AllDirs == UNION { {Candidates(sd)[i] : i \in 1..3} : sd \in Subdirs }

IsPrefix(p, d) == Len(p) <= Len(d) /\ SubSeq(d, 1, Len(p)) = p

\* Path.exists(): a directory exists when it or something below it was made.
Exists(p) == \E d \in fsDirs : IsPrefix(p, d)

\* (mutation of FirstExisting: the existence probe is skipped)
FirstExisting_NoProbe(cands, i) == cands[1]

\* The for loop: the first candidate that exists, else None.
RECURSIVE FirstExisting(_, _)
FirstExisting(cands, i) ==
    IF i > Len(cands) THEN None
    ELSE IF Exists(cands[i]) THEN cands[i]
    ELSE FirstExisting(cands, i + 1)

resolve_cxl_path(sd) == FirstExisting(Candidates(sd), 1)

\* No directory exists and no call was made.
ResolverIdle ==
    /\ fsDirs = {}
    /\ subdir = None
    /\ resolved = NotCalled

ResolverFiles ==
    /\ fsDirs \in SUBSET AllDirs
    /\ subdir = None
    /\ resolved = NotCalled

ResolveCxlPath ==
    \E sd \in Subdirs :
        /\ subdir' = sd
        /\ resolved' = resolve_cxl_path(sd)
        /\ UNCHANGED fsDirs


ResolverCalled == resolved # NotCalled

\* C1: resolve_cxl_path returns a candidate that exists, the earliest
\* existing one in its probing order; it returns None exactly when none of
\* the three candidates exists; when only base_dir/cxl_raw/<subdir> exists
\* it returns that path.
C1_ResolveFirstExisting ==
    ResolverCalled =>
        LET cands == Candidates(subdir) IN
        /\ (resolved = None) <=> (\A i \in 1..3 : ~Exists(cands[i]))
        /\ resolved # None =>
              \E i \in 1..3 :
                  /\ resolved = cands[i]
                  /\ Exists(cands[i])
                  /\ \A j \in 1..(i - 1) : ~Exists(cands[j])
        /\ fsDirs = {<<"cxl_raw", subdir>>} => resolved = <<"cxl_raw", subdir>>

C1_Witness ==
    /\ fsDirs = {<<"cxl_raw", "access_pattern">>}
    /\ subdir = "access_pattern"
    /\ resolved = <<"cxl_raw", "access_pattern">>

\* The first of three paths, in the order given, that exists; else None.
FirstOfThree(a, b, c) ==
    IF Exists(a) THEN a ELSE IF Exists(b) THEN b ELSE IF Exists(c) THEN c ELSE None

\* C2 (as stated): the preference order is cxl_raw/raw/<test>, then
\* cxl_raw/<test>, then true_cxl_raw/raw/<test>.
C2_Original ==
    ResolverCalled =>
        resolved = FirstOfThree(<<"cxl_raw", "raw", subdir>>,
                                <<"cxl_raw", subdir>>,
                                <<"true_cxl_raw", "raw", subdir>>)

\* C2 (amended): the preference order is true_cxl_raw/raw/<test>, then
\* cxl_raw/raw/<test>, then cxl_raw/<test>; the first of these that exists
\* is returned.
C2_ResolveOrder ==
    ResolverCalled =>
        resolved = FirstOfThree(<<"true_cxl_raw", "raw", subdir>>,
                                <<"cxl_raw", "raw", subdir>>,
                                <<"cxl_raw", subdir>>)

\* Two layouts exist and the authoritative one wins.
C2_Witness ==
    /\ subdir = "rwmix"
    /\ <<"true_cxl_raw", "raw", "rwmix">> \in fsDirs
    /\ <<"cxl_raw", "raw", "rwmix">> \in fsDirs
    /\ resolved = <<"true_cxl_raw", "raw", "rwmix">>

(***************************************************************************)
(* load_fio_json                                                           *)
(*                                                                         *)
(* The file is a sequence of tokens: the braces, a quoted key with its     *)
(* colon (k), the comma, a scalar (1) and a character of log text (x).     *)
(***************************************************************************)

Tokens == {"{", "}", "k", ",", "1", "x"}

MaxLen == 6

RECURSIVE SeqsUpTo(_, _)
SeqsUpTo(S, n) ==
    IF n = 0 THEN {<<>>}
    ELSE LET shorter == SeqsUpTo(S, n - 1) IN
         shorter \cup {Append(t, c) : t \in {u \in shorter : Len(u) = n - 1}, c \in S}

\* str.find: the 0-based index of the first occurrence, -1 when there is none.
RECURSIVE FindFrom(_, _, _)
FindFrom(s, c, i) ==
    IF i >= Len(s) THEN -1
    ELSE IF s[i + 1] = c THEN i
    ELSE FindFrom(s, c, i + 1)

Find(s, c) == FindFrom(s, c, 0)

\* str.rfind: the 0-based index of the last occurrence, -1 when there is none.
RECURSIVE RFindFrom(_, _, _)
RFindFrom(s, c, i) ==
    IF i < 0 THEN -1
    ELSE IF s[i + 1] = c THEN i
    ELSE RFindFrom(s, c, i - 1)

(* mutation of RFind: the first closing brace is taken *)
RFind_First(s, c) == FindFrom(s, c, 0)

RFind(s, c) == RFindFrom(s, c, Len(s) - 1)

\* s[a:b] for 0 <= a, 0 <= b.
Slice(s, a, b) == IF b <= a THEN <<>> ELSE SubSeq(s, a + 1, IF b > Len(s) THEN Len(s) ELSE b)

\* The JSON decoder.  A parse step yields [ok, val, next]: whether a value
\* starts at position i (1-based), the value, and the position after it.
\* A scalar is <<"num">>; an object is <<"obj">> when empty and
\* <<"obj", v>> when its key holds v (a repeated key keeps the last value).
ParseFail == [ok |-> FALSE, val |-> <<>>, next |-> 0]

RECURSIVE ParseValue(_, _), ParseMembers(_, _)
ParseValue(s, i) ==
    IF i > Len(s) THEN ParseFail
    ELSE IF s[i] = "1" THEN [ok |-> TRUE, val |-> <<"num">>, next |-> i + 1]
    ELSE IF s[i] = "{" THEN
        IF i + 1 <= Len(s) /\ s[i + 1] = "}"
        THEN [ok |-> TRUE, val |-> <<"obj">>, next |-> i + 2]
        ELSE ParseMembers(s, i + 1)
    ELSE ParseFail

\* The members of an object from position i on, up to its closing brace.
ParseMembers(s, i) ==
    IF i > Len(s) \/ s[i] # "k" THEN ParseFail
    ELSE LET v == ParseValue(s, i + 1) IN
         IF ~v.ok \/ v.next > Len(s) THEN ParseFail
         ELSE IF s[v.next] = "}"
              THEN [ok |-> TRUE, val |-> <<"obj", v.val>>, next |-> v.next + 1]
         ELSE IF s[v.next] = ","
              THEN ParseMembers(s, v.next + 1)
         ELSE ParseFail

\* json.loads: the value when the whole text is one JSON value, else an error.
JsonLoads(s) ==
    LET r == ParseValue(s, 1) IN
    IF r.ok /\ r.next = Len(s) + 1 THEN Return(r.val) ELSE Raise("JSONDecodeError")

load_fio_json(text) ==
    LET start == Find(text, "{")
        end == RFind(text, "}")
    IN IF start = -1 \/ end = -1 THEN Raise("ValueError")
       ELSE JsonLoads(Slice(text, start, end + 1))

LoadIdle ==
    /\ raw = <<>>
    /\ loaded = Pending

LoadFiles ==
    /\ raw \in SeqsUpTo(Tokens, MaxLen)
    /\ loaded = Pending

LoadFioJson ==
    /\ loaded' = load_fio_json(raw)
    /\ UNCHANGED raw


LoadCalled == loaded # Pending

\* C3: load_fio_json parses exactly the text from the first "{" to the last
\* "}": it returns the payload when the file is a valid JSON object preceded
\* by text without "{"; it raises when the file has no "{" and when the text
\* between the first "{" and the last "}" is not valid JSON.
C3_LoadFirstBraceToLast ==
    LoadCalled =>
        LET n == Len(raw)
            opens == {i \in 1..n : raw[i] = "{"}
            closes == {i \in 1..n : raw[i] = "}"}
        IN
        /\ opens = {} \/ closes = {} => loaded.st = "raise"
        /\ \A a \in opens, b \in closes :
              (\A i \in opens : a <= i) /\ (\A i \in closes : i <= b)
                  => loaded = JsonLoads(IF a <= b THEN SubSeq(raw, a, b) ELSE <<>>)
        /\ \A k \in 0..n :
              LET payload == SubSeq(raw, k + 1, n) IN
              /\ \A i \in 1..k : raw[i] # "{"
              /\ payload # <<>> /\ payload[1] = "{"
              /\ JsonLoads(payload).st = "return"
              => loaded = JsonLoads(payload)

\* A log line, then a payload with a nested object.
C3_Witness ==
    /\ raw = <<"x", "{", "k", "{", "}", "}">>
    /\ loaded = Return(<<"obj", <<"obj">>>>)

(***************************************************************************)
(* Floating point                                                          *)
(*                                                                         *)
(* Python's float is an IEEE-754 binary format: every operation returns    *)
(* the exact result rounded to the nearest value of MantBits significant   *)
(* bits, ties to even.  A float is <<m, e>>, standing for m * 2^e, with m  *)
(* odd (or <<0, 0>> for zero).  The model keeps the rounding rule and uses *)
(* a narrower significand than the 53 bits of a double.                    *)
(***************************************************************************)

MantBits == 16

RECURSIVE Pow2(_)
Pow2(n) == IF n <= 0 THEN 1 ELSE 2 * Pow2(n - 1)

RECURSIVE Normalize(_, _)
Normalize(q, e) ==
    IF q = 0 THEN <<0, 0>>
    ELSE IF q % 2 = 0 THEN Normalize(q \div 2, e + 1)
    ELSE <<q, e>>

\* (num / den) * 2^e rounded to MantBits significant bits, ties to even.
RECURSIVE RoundRat(_, _, _)
RoundRat(num, den, e) ==
    IF num = 0 THEN <<0, 0>>
    ELSE IF num < den * Pow2(MantBits - 1) THEN RoundRat(2 * num, den, e - 1)
    ELSE IF num >= den * Pow2(MantBits) THEN RoundRat(num, 2 * den, e + 1)
    ELSE LET q == num \div den
             r == num % den
             up == 2 * r > den \/ (2 * r = den /\ q % 2 = 1)
         IN Normalize(IF up THEN q + 1 ELSE q, e)

\* float(n) for an integer n >= 0 of the JSON payload.
FromInt(n) == RoundRat(n, 1, 0)

\* x / y and x * y on floats (y > 0).
FDiv(x, y) == RoundRat(x[1], y[1], x[2] - y[2])
FMul(x, y) == RoundRat(x[1] * y[1], 1, x[2] + y[2])

\* x + y on floats.
FAdd(x, y) ==
    LET lo == IF x[2] <= y[2] THEN x[2] ELSE y[2]
    IN RoundRat(x[1] * Pow2(x[2] - lo) + y[1] * Pow2(y[2] - lo), 1, lo)

\* The float whose value is exactly the integer n (when there is one).
ExactInt(n) == Normalize(n, 0)

\* float(n) loses nothing.
Representable(n) == FromInt(n) = ExactInt(n)

(***************************************************************************)
(* FioMetrics.from_job_section                                             *)
(*                                                                         *)
(* A dict is a function on the keys it has; {} is the empty function.      *)
(***************************************************************************)

\* dict.get(key, default)
Get(d, key, default) == IF key \in DOMAIN d THEN d[key] ELSE default

\* The truth value of a dict or of None: non-empty.
Truthy(d) == d # <<>>

\* a or b
Or(a, b) == IF Truthy(a) THEN a ELSE b

(* mutation of LatContainer: lat_ns is preferred over clat_ns *)
LatContainer_LatFirst(sec) ==
    Or(Or(Get(sec, "lat_ns", None), Get(sec, "clat_ns", None)), <<>>)

\* section.get("clat_ns") or section.get("lat_ns") or {}
LatContainer(sec) ==
    Or(Or(Get(sec, "clat_ns", None), Get(sec, "lat_ns", None)), <<>>)

\* float(p) / 1000.0 if p is not None else None
NsToUs(p) == IF p # None THEN FDiv(p, FromInt(1000)) ELSE None

(* mutation of KbToMb: a decimal megabyte *)
KbToMb_Decimal(kb) == FDiv(kb, FromInt(1000))

\* float(...) / 1024.0
KbToMb(kb) == FDiv(kb, FromInt(1024))

from_job_section(sec) ==
    LET bw == KbToMb(FromInt(Get(sec, "bw", 0)))
        iops == FromInt(Get(sec, "iops", 0))
        lat_container == LatContainer(sec)
        mean_us == FDiv(FromInt(Get(lat_container, "mean", 0)), FromInt(1000))
        percentiles == Get(lat_container, "percentile", <<>>)
        p95 == IF "95.000000" \in DOMAIN percentiles
               THEN FromInt(percentiles["95.000000"]) ELSE None
        p99 == IF "99.000000" \in DOMAIN percentiles
               THEN FromInt(percentiles["99.000000"]) ELSE None
    IN [bw_mb_s |-> bw,
        iops |-> iops,
        lat_mean_us |-> mean_us,
        lat_p95_us |-> NsToUs(p95),
        lat_p99_us |-> NsToUs(p99)]

\* The dicts with at most the one key, its value drawn from V.
Opt(key, V) == {<<>>} \cup {key :> v : v \in V}

\* Values of the payload: KB/s, I/Os per second, nanoseconds.
BwValues == {0, 2048, 3000}
IopsValues == {500}
MeanValues == {0, 1003, 750000}
PercentileValues == {1003, 2000}

PercentileDicts ==
    {a @@ b : a \in Opt("95.000000", PercentileValues),
              b \in Opt("99.000000", {1003})}

\* A latency container: clat_ns or lat_ns.
LatDicts == {a @@ b : a \in Opt("mean", MeanValues), b \in Opt("percentile", PercentileDicts)}

\* A read or write section.
Sections ==
    {a @@ b @@ c @@ d @@ e :
        a \in Opt("bw", BwValues), b \in Opt("iops", IopsValues),
        c \in Opt("clat_ns", LatDicts), d \in Opt("lat_ns", LatDicts),
        e \in Opt("total_ios", {0})}

SectionIdle ==
    /\ section = <<>>
    /\ fm = Pending

SectionFiles ==
    /\ section \in Sections
    /\ fm = Pending

FromJobSection ==
    /\ fm' = Return(from_job_section(section))
    /\ UNCHANGED section

SectionCalled == fm # Pending

\* The latency fields of a record, and what a container alone would give.
LatFields(r) == <<r.lat_mean_us, r.lat_p95_us, r.lat_p99_us>>

LatFieldsOf(container) ==
    LET pct == Get(container, "percentile", <<>>) IN
    << FDiv(FromInt(Get(container, "mean", 0)), FromInt(1000)),
       IF "95.000000" \in DOMAIN pct
           THEN FDiv(FromInt(pct["95.000000"]), FromInt(1000)) ELSE None,
       IF "99.000000" \in DOMAIN pct
           THEN FDiv(FromInt(pct["99.000000"]), FromInt(1000)) ELSE None >>

BothLatPresent == "clat_ns" \in DOMAIN section /\ "lat_ns" \in DOMAIN section

SourceNs ==
    LET c == LatContainer(section)
        pct == Get(c, "percentile", <<>>)
    IN << Get(c, "mean", 0), Get(pct, "95.000000", -1), Get(pct, "99.000000", -1) >>

\* The float f is the integer n up to rounding: relative error at most
\* 2^-(MantBits - 2).
Close(f, n) ==
    LET k == IF f[2] < 0 THEN -f[2] ELSE 0
        a == f[1] * Pow2(f[2] + k)
        b == n * Pow2(k)
        d == IF a >= b THEN a - b ELSE b - a
    IN d * Pow2(MantBits - 2) <= b

\* C7 (as stated): the conversion is exact: bw_mb_s * 1024 equals bw and
\* each latency in microseconds times 1000 equals its nanosecond source.
C7_Original ==
    SectionCalled =>
        /\ FMul(fm.val.bw_mb_s, FromInt(1024)) = ExactInt(Get(section, "bw", 0))
        /\ \A i \in 1..3 :
              SourceNs[i] >= 0 =>
                  FMul(LatFields(fm.val)[i], FromInt(1000)) = ExactInt(SourceNs[i])

\* C7 (amended): bw_mb_s * 1024 equals bw exactly; a latency in
\* microseconds times 1000 equals its nanosecond source when the source is a
\* whole number of microseconds, and is within floating-point rounding of it
\* otherwise; bw = 2048 gives 2.0 and mean = 750000 gives 750.0.
C7_ConversionRounded ==
    SectionCalled =>
        /\ Representable(Get(section, "bw", 0)) =>
              FMul(fm.val.bw_mb_s, FromInt(1024)) = ExactInt(Get(section, "bw", 0))
        /\ \A i \in 1..3 :
              SourceNs[i] >= 0 =>
                  /\ SourceNs[i] % 1000 = 0 /\ Representable(SourceNs[i]) =>
                        FMul(LatFields(fm.val)[i], FromInt(1000)) = ExactInt(SourceNs[i])
                  /\ Close(FMul(LatFields(fm.val)[i], FromInt(1000)), SourceNs[i])
        /\ Get(section, "bw", 0) = 2048 => fm.val.bw_mb_s = ExactInt(2)
        /\ SourceNs[1] = 750000 => fm.val.lat_mean_us = ExactInt(750)

\* The two examples of the claim, and a percentile that is not a whole
\* number of microseconds.
C7_Witness ==
    /\ SectionCalled
    /\ Get(section, "bw", 0) = 2048 /\ fm.val.bw_mb_s = ExactInt(2)
    /\ SourceNs[1] = 750000 /\ fm.val.lat_mean_us = ExactInt(750)
    /\ SourceNs[3] = 1003
    /\ FMul(fm.val.lat_p99_us, FromInt(1000)) # ExactInt(1003)

(***************************************************************************)
(* load_fio_job_metrics                                                    *)
(***************************************************************************)

MaxJobs == 2

\* The sections of the jobs of a result file.
JobSections ==
    { <<>>,
      [total_ios |-> 0],
      [bw |-> 0, iops |-> 0, total_ios |-> 0, clat_ns |-> [mean |-> 0]],
      [bw |-> 2048, iops |-> 500, total_ios |-> 9, lat_ns |-> [mean |-> 750000]],
      [bw |-> 3000, iops |-> 500, total_ios |-> 9,
       clat_ns |-> [mean |-> 1003, percentile |-> ("95.000000" :> 2000)]] }

Jobs == {a @@ b : a \in Opt("read", JobSections), b \in Opt("write", JobSections)}

\* What load_fio_json made of the file: an exception or the payload.
LoadOutcomes ==
    {Raise("ValueError"), Raise("JSONDecodeError")}
        \cup {Return(d) : d \in Opt("jobs", SeqsUpTo(Jobs, MaxJobs))}

(* mutation of FirstJob: the last job is taken *)
FirstJob_Last(jobs) == jobs[Len(jobs)]

\* data["jobs"][0]
FirstJob(jobs) == jobs[1]

(* mutation of KeepSection: a section without I/Os is dropped *)
KeepSection_WithIos(sec) == Truthy(sec) /\ Get(sec, "total_ios", 1) # 0

\* if section:
KeepSection(sec) == Truthy(sec)

\* The loop over ("read", "write").
MetricsOfJob(job) ==
    LET kept == {d \in {"read", "write"} : KeepSection(Get(job, d, None))}
    IN [d \in kept |-> from_job_section(job[d])]

load_fio_job_metrics(outcome) ==
    IF outcome.st = "raise" THEN outcome
    ELSE IF "jobs" \notin DOMAIN outcome.val \/ Len(outcome.val["jobs"]) = 0
         THEN Raise("ValueError")
    ELSE Return(MetricsOfJob(FirstJob(outcome.val["jobs"])))

MetricsIdle ==
    /\ data = Pending
    /\ metrics = Pending

MetricsFiles ==
    /\ data \in LoadOutcomes
    /\ metrics = Pending

LoadFioJobMetrics ==
    /\ data # Pending
    /\ metrics' = load_fio_job_metrics(data)
    /\ UNCHANGED data

MetricsCalled == metrics # Pending

\* The payload has a first job.
HasFirstJob ==
    /\ data.st = "return"
    /\ "jobs" \in DOMAIN data.val
    /\ data.val["jobs"] # <<>>

\* C5: load_fio_job_metrics raises, and returns nothing, when the payload
\* has no "jobs" entry or an empty "jobs" array; otherwise it returns the
\* metrics of the first job only.
C5_FirstJobOrError ==
    MetricsCalled =>
        /\ ~HasFirstJob => metrics.st = "raise"
        /\ HasFirstJob =>
              LET job == data.val["jobs"][1] IN
              /\ metrics.st = "return"
              /\ DOMAIN metrics.val \subseteq {"read", "write"} \cap DOMAIN job
              /\ \A d \in DOMAIN metrics.val :
                    metrics.val[d] = from_job_section(job[d])

\* Two jobs: the second has a write section, the result has none.
C5_Witness ==
    /\ MetricsCalled /\ HasFirstJob
    /\ Len(data.val["jobs"]) = 2
    /\ DOMAIN data.val["jobs"][1] = {"read"}
    /\ DOMAIN data.val["jobs"][2] = {"write"}
    /\ data.val["jobs"][2]["write"] # <<>>
    /\ DOMAIN metrics.val = {"read"}

\* Every metric field of the section is zero or missing.
AllZeroOrMissing(sec) ==
    /\ Get(sec, "bw", 0) = 0
    /\ Get(sec, "iops", 0) = 0
    /\ LET c == LatContainer(sec) IN
       /\ Get(c, "mean", 0) = 0
       /\ Get(c, "percentile", <<>>) = <<>>

ZeroRecord ==
    [bw_mb_s |-> ExactInt(0), iops |-> ExactInt(0), lat_mean_us |-> ExactInt(0),
     lat_p95_us |-> None, lat_p99_us |-> None]

\* C6 (as stated): the result has an entry for a direction exactly when the
\* first job contains that section; a section with zero total I/Os or with
\* every metric field zero or missing yields the all-zero record.
C6_Original ==
    MetricsCalled /\ HasFirstJob =>
        LET job == data.val["jobs"][1] IN
        \A d \in {"read", "write"} :
            /\ d \in DOMAIN metrics.val <=> d \in DOMAIN job
            /\ d \in DOMAIN job /\ AllZeroOrMissing(job[d]) =>
                  d \in DOMAIN metrics.val /\ metrics.val[d] = ZeroRecord

\* C6 (amended): the result has an entry for a direction exactly when the
\* first job contains that section and the section is not an empty object;
\* a non-empty section is never dropped, including one with zero total I/Os,
\* and when every metric field of it is zero or missing its record has
\* bandwidth, IOPS and mean latency 0 and both percentiles absent.
C6_NonEmptySectionKept ==
    MetricsCalled /\ HasFirstJob =>
        LET job == data.val["jobs"][1] IN
        \A d \in {"read", "write"} :
            /\ d \in DOMAIN metrics.val <=> (d \in DOMAIN job /\ job[d] # <<>>)
            /\ d \in DOMAIN job /\ job[d] # <<>> /\ AllZeroOrMissing(job[d]) =>
                  metrics.val[d] = ZeroRecord

\* A read section that holds nothing but total_ios = 0 is kept, as zeros.
C6_Witness ==
    /\ MetricsCalled /\ HasFirstJob
    /\ Get(data.val["jobs"][1], "read", None) = [total_ios |-> 0]
    /\ "read" \in DOMAIN metrics.val
    /\ metrics.val["read"] = ZeroRecord

(***************************************************************************)
(* infer_cxl_uplift                                                        *)
(*                                                                         *)
(* A summary file is None when absent, else [cols, rows]: the columns of   *)
(* its header and its data rows <<block_size, write_bw_kbps>>, a cell      *)
(* being <<"num", n>> or <<"text">> (not a number).                        *)
(***************************************************************************)

MaxRows == 2

BothCols == {"block_size", "write_bw_kbps"}

SamsungRows ==
    { <<"4K", <<"num", 1000>>>>, <<"4k", <<"num", 0>>>>, <<"4096", <<"num", 2000>>>>,
      <<"512", <<"num", 1000>>>>, <<"64k", <<"num", 2000>>>>, <<"512", <<"text">>>> }

CxlRows ==
    { <<"4K", <<"num", 1150>>>>, <<"4k", <<"num", 3000>>>>, <<"4096", <<"num", 3000>>>>,
      <<"512", <<"num", 3000>>>>, <<"64k", <<"num", 1150>>>>, <<"64k", <<"text">>>> }

\* The files: absent, a full header, or a header that lacks a column.
CsvFiles(rowSet) ==
    {None}
        \cup {[cols |-> BothCols, rows |-> r] : r \in SeqsUpTo(rowSet, MaxRows)}
        \cup {[cols |-> {c}, rows |-> r] : c \in BothCols, r \in SeqsUpTo(rowSet, 1)}

\* str.lower() on the block-size labels.
Lower(label) == IF label = "4K" THEN "4k" ELSE label

\* load_bw: the dict comprehension over the rows, a later row replacing an
\* earlier one with the same key; the first row that cannot be read raises.
RECURSIVE LoadRows(_, _, _, _)
LoadRows(cols, rows, i, acc) ==
    IF i > Len(rows) THEN Return(acc)
    ELSE IF "block_size" \notin cols \/ "write_bw_kbps" \notin cols THEN Raise("KeyError")
    ELSE IF rows[i][2][1] # "num" THEN Raise("ValueError")
    ELSE LET key == Lower(rows[i][1])
             rest == [k \in DOMAIN acc \ {key} |-> acc[k]]
         IN LoadRows(cols, rows, i + 1, rest @@ (key :> FromInt(rows[i][2][2])))

(* mutation of load_bw: a file or a row that cannot be read is skipped *)
load_bw_Lenient(csv) ==
    IF csv.cols # BothCols THEN Return(<<>>)
    ELSE LoadRows(csv.cols, SelectSeq(csv.rows, LAMBDA r : r[2][1] = "num"), 1, <<>>)

load_bw(csv) == LoadRows(csv.cols, csv.rows, 1, <<>>)

\* default: float = 1.15
DefaultUplift == RoundRat(115, 100, 0)

Positive(x) == x[1] > 0

\* sum(ratios) over the keys of a set, then / len: np.mean.
RECURSIVE SumRatios(_, _, _)
SumRatios(keys, cxl_bw, samsung_bw) ==
    IF keys = {} THEN <<0, 0>>
    ELSE LET k == CHOOSE x \in keys : TRUE
         IN FAdd(FDiv(cxl_bw[k], samsung_bw[k]),
                 SumRatios(keys \ {k}, cxl_bw, samsung_bw))

(* mutation of PreferredKeys: no block size is preferred *)
PreferredKeys_None == <<>>

\* for candidate in ("4k", "4096")
PreferredKeys == <<"4k", "4096">>

\* The loop over the preferred keys: the first one that both tables have
\* with a positive Samsung bandwidth, else the mean of the ratios.
RECURSIVE PreferredRatio(_, _, _, _)
PreferredRatio(i, overlaps, cxl_bw, samsung_bw) ==
    IF i > Len(PreferredKeys) THEN
        LET keys == {k \in overlaps : Positive(samsung_bw[k])}
        IN FDiv(SumRatios(keys, cxl_bw, samsung_bw), FromInt(Cardinality(keys)))
    ELSE LET c == PreferredKeys[i] IN
         IF c \in overlaps /\ Positive(samsung_bw[c])
         THEN FDiv(cxl_bw[c], samsung_bw[c])
         ELSE PreferredRatio(i + 1, overlaps, cxl_bw, samsung_bw)

infer_cxl_uplift(samsung, cxl) ==
    IF samsung = None \/ cxl = None THEN Return(DefaultUplift)
    ELSE LET s == load_bw(samsung) IN
         IF s.st = "raise" THEN s
         ELSE LET c == load_bw(cxl) IN
              IF c.st = "raise" THEN c
              ELSE LET samsung_bw == s.val
                       cxl_bw == c.val
                       overlaps == DOMAIN cxl_bw \cap DOMAIN samsung_bw
                   IN IF \E k \in overlaps : Positive(samsung_bw[k])
                      THEN Return(PreferredRatio(1, overlaps, cxl_bw, samsung_bw))
                      ELSE Return(DefaultUplift)

UpliftIdle ==
    /\ samsung_csv = None
    /\ cxl_csv = None
    /\ uplift = Pending

UpliftFiles ==
    /\ samsung_csv \in CsvFiles(SamsungRows)
    /\ cxl_csv \in CsvFiles(CxlRows)
    /\ uplift = Pending

InferCxlUplift ==
    /\ uplift' = infer_cxl_uplift(samsung_csv, cxl_csv)
    /\ UNCHANGED <<samsung_csv, cxl_csv>>

UpliftCalled == uplift # Pending

\* The file is present and every row of it can be read.
WellFormed(csv) ==
    /\ csv # None
    /\ csv.cols = BothCols
    /\ \A i \in 1..Len(csv.rows) : csv.rows[i][2][1] = "num"

\* The file has a row for the key (its label lowered).
HasRow(csv, key) == \E i \in 1..Len(csv.rows) : Lower(csv.rows[i][1]) = key

\* The bandwidth of the key's row, the last one when the key is repeated.
RowBw(csv, key) ==
    LET last == CHOOSE i \in 1..Len(csv.rows) :
                    /\ Lower(csv.rows[i][1]) = key
                    /\ \A j \in (i + 1)..Len(csv.rows) : Lower(csv.rows[j][1]) # key
    IN csv.rows[last][2][2]

\* Both summaries have a row for the key and the Samsung bandwidth is positive.
Qualifies(key) ==
    /\ HasRow(samsung_csv, key) /\ HasRow(cxl_csv, key)
    /\ RowBw(samsung_csv, key) > 0

RowRatio(key) == FDiv(FromInt(RowBw(cxl_csv, key)), FromInt(RowBw(samsung_csv, key)))

\* C8: when both summaries exist and both have a 4KB row (block_size 4k or
\* 4096, in any case) whose Samsung bandwidth is positive, infer_cxl_uplift
\* returns exactly improved_bw / baseline_bw of that row (of the 4k row when
\* both labels qualify), whatever the ratios of the other block sizes.
C8_Uplift4kRatio ==
    UpliftCalled /\ WellFormed(samsung_csv) /\ WellFormed(cxl_csv) =>
        /\ Qualifies("4k") => uplift = Return(RowRatio("4k"))
        /\ ~Qualifies("4k") /\ Qualifies("4096") => uplift = Return(RowRatio("4096"))

\* Baseline 1000 and improved 1150 at 4KB, 1000 and 3000 at 512 bytes.
C8_Witness ==
    /\ UpliftCalled
    /\ samsung_csv = [cols |-> BothCols,
                      rows |-> << <<"4K", <<"num", 1000>>>>, <<"512", <<"num", 1000>>>> >>]
    /\ cxl_csv = [cols |-> BothCols,
                  rows |-> << <<"4K", <<"num", 1150>>>>, <<"512", <<"num", 3000>>>> >>]
    /\ uplift = Return(RoundRat(115, 100, 0))

\* The file is present and a data row of it cannot be read.
Unreadable(csv) ==
    /\ csv # None
    /\ csv.rows # <<>>
    /\ csv.cols # BothCols \/ \E i \in 1..Len(csv.rows) : csv.rows[i][2][1] # "num"

\* C9 (as stated): infer_cxl_uplift never raises; it returns the default
\* when either summary is absent and when a summary cannot be parsed.
C9_Original ==
    UpliftCalled =>
        /\ uplift.st = "return"
        /\ samsung_csv = None \/ cxl_csv = None => uplift = Return(DefaultUplift)
        /\ Unreadable(samsung_csv) \/ Unreadable(cxl_csv) => uplift = Return(DefaultUplift)

\* C9 (amended): infer_cxl_uplift returns the default when either summary
\* file is absent; when both are present it raises exactly when one of them
\* has a data row that cannot be read: KeyError for a missing block_size or
\* write_bw_kbps column, ValueError for a bandwidth that is not a number.
C9_UpliftRaisesOnBadFile ==
    UpliftCalled =>
        /\ samsung_csv = None \/ cxl_csv = None => uplift = Return(DefaultUplift)
        /\ samsung_csv # None /\ cxl_csv # None =>
              /\ uplift.st = "raise" <=> (Unreadable(samsung_csv) \/ Unreadable(cxl_csv))
              /\ uplift.st = "raise" =>
                    LET bad == IF Unreadable(samsung_csv) THEN samsung_csv ELSE cxl_csv
                    IN uplift.exc = IF bad.cols # BothCols THEN "KeyError" ELSE "ValueError"

\* Both files are present and the CXL file has a bandwidth that is no number.
C9_Witness ==
    /\ UpliftCalled
    /\ WellFormed(samsung_csv) /\ samsung_csv.rows # <<>>
    /\ cxl_csv # None /\ cxl_csv.cols = BothCols /\ Unreadable(cxl_csv)
    /\ uplift = Raise("ValueError")

(***************************************************************************)
(* The files of a results directory.                                       *)
(*                                                                         *)
(* A path is written relative to results_dir.  Paths holds, for every path *)
(* a run below reads, its top-level directory, its basename and the glob   *)
(* patterns of the validator that it matches.                              *)
(***************************************************************************)

AllJson == "**/*.json"

Entry_(dir, name, globs) == [dir |-> dir, name |-> name, globs |-> globs]

Paths ==
    "a.json" :> Entry_(".", "a.json", {AllJson})
    @@ "b.json" :> Entry_(".", "b.json", {AllJson})
    @@ "raw/qd_thread/qd1_jobs1_read.json" :>
           Entry_("raw", "qd1_jobs1_read.json",
                  {AllJson, "raw/**/*.json", "raw/qd_thread/qd*_jobs1_read.json", "raw/qd_thread/qd*.json"})
    @@ "raw/qd_thread/qd2_jobs1_read.json" :>
           Entry_("raw", "qd2_jobs1_read.json",
                  {AllJson, "raw/**/*.json", "raw/qd_thread/qd*_jobs1_read.json", "raw/qd_thread/qd*.json"})
    @@ "raw/qd_thread/qd4_jobs1_read.json" :>
           Entry_("raw", "qd4_jobs1_read.json",
                  {AllJson, "raw/**/*.json", "raw/qd_thread/qd*_jobs1_read.json", "raw/qd_thread/qd*.json"})
    @@ "raw/qd_thread/qd1_jobs1_write.json" :>
           Entry_("raw", "qd1_jobs1_write.json", {AllJson, "raw/**/*.json", "raw/qd_thread/qd*.json"})
    @@ "raw/blocksize/bs_4k_read.json" :>
           Entry_("raw", "bs_4k_read.json",
                  {AllJson, "raw/**/*.json", "raw/blocksize/bs_*_read.json", "raw/blocksize/bs_*.json"})
    @@ "raw/blocksize/bs_64k_read.json" :>
           Entry_("raw", "bs_64k_read.json",
                  {AllJson, "raw/**/*.json", "raw/blocksize/bs_*_read.json", "raw/blocksize/bs_*.json"})
    @@ "raw/blocksize/run2/bs_4k_read.json" :>
           Entry_("raw", "bs_4k_read.json", {AllJson, "raw/**/*.json"})
    @@ "raw/access_pattern/pattern_randread.json" :>
           Entry_("raw", "pattern_randread.json",
                  {AllJson, "raw/**/*.json", "raw/access_pattern/pattern_*.json"})
    @@ "raw/rwmix/rwmix_r70_w30.json" :>
           Entry_("raw", "rwmix_r70_w30.json", {AllJson, "raw/**/*.json", "raw/rwmix/rwmix_*.json"})
    @@ "raw/distribution/dist_zipf.json" :>
           Entry_("raw", "dist_zipf.json", {AllJson, "raw/**/*.json", "raw/distribution/dist_*.json"})
    @@ "raw/endurance/endurance_1h.json" :>
           Entry_("raw", "endurance_1h.json", {AllJson, "raw/**/*.json", "raw/endurance/endurance_*.json"})
    @@ "filesystem/fs_ext4.json" :>
           Entry_("filesystem", "fs_ext4.json",
                  {AllJson, "filesystem/*.json", "filesystem/fs_*.json"})
    @@ "rocksdb/fillseq.log" :>
           Entry_("rocksdb", "fillseq.log", {"rocksdb/*.log"})
    @@ "rocksdb/readrandom.log" :>
           Entry_("rocksdb", "readrandom.log", {"rocksdb/*.log"})
    @@ "../logs/run.log" :>
           Entry_("../logs", "run.log", {"../logs/*.log"})

\* os.path.basename
basename(p) == Paths[p].name

\* The files that exist.
Files == DOMAIN results \cup DOMAIN logs

\* glob.glob: the existing files the pattern matches.
glob(pattern) == {p \in Files : pattern \in Paths[p].globs}

\* Every enumeration of a set: glob returns its matches in the order the
\* directory scan yields them, which nothing fixes.
RECURSIVE Orders(_)
Orders(S) ==
    IF S = {} THEN {<<>>}
    ELSE UNION {{<<x>> \o t : t \in Orders(S \ {x})} : x \in S}

\* One enumeration of a set.
RECURSIVE OneOrder(_)
OneOrder(S) ==
    IF S = {} THEN <<>>
    ELSE LET first == CHOOSE x \in S : TRUE IN <<first>> \o OneOrder(S \ {first})

Reverse(q) == [i \in 1..Len(q) |-> q[Len(q) + 1 - i]]

\* The orders a scan of a directory can give: every order of a few files,
\* and of many files one order and its reverse.
Listings(S) ==
    IF Cardinality(S) <= 3 THEN Orders(S)
    ELSE {OneOrder(S), Reverse(OneOrder(S))}

\* The directories a file needs.
DirsOfFiles(fs) == {Paths[p].dir : p \in fs} \ {"."}

TopDirs == {"raw", "filesystem", "rocksdb", "../logs"}

(***************************************************************************)
(* ResultValidator                                                         *)
(*                                                                         *)
(* The validator object: the thresholds and the three lists of findings.   *)
(* A finding is <<text, file name>> or <<text, file name, io_type>>.  A    *)
(* call in progress is a record v of the three lists, the local flag       *)
(* `valid` and the exception raised so far ("" for none).                  *)
(***************************************************************************)

MaxCalls == 2

DefaultThresholds ==
    [min_iops |-> 100,
     max_latency_ms |-> 1000,
     latency_variance_threshold |-> 10,
     min_bandwidth_mb |-> 1,
     error_rate_threshold |-> "0.01",
     min_runtime_seconds |-> 60]

\* What a caller can pass: nothing, {}, a full mapping, a partial mapping.
CallerThresholds ==
    { None,
      [min_iops |-> 1000, max_latency_ms |-> 1, latency_variance_threshold |-> 2,
       min_bandwidth_mb |-> 1, error_rate_threshold |-> "0.01",
       min_runtime_seconds |-> 30],
      [min_iops |-> 50, min_runtime_seconds |-> 30] }

(* mutation of InitThresholds: the caller's limits are merged into the defaults *)
InitThresholds_Merged(given) ==
    IF Truthy(given) THEN given @@ DefaultThresholds ELSE DefaultThresholds

\* thresholds or {...}
InitThresholds(given) == IF Truthy(given) THEN given ELSE DefaultThresholds

\* ns / 1_000_000 > limit, in whole numbers.
ExceedsMs(ns, limit) ==
    LET q == ns \div 1000000
        r == ns % 1000000
    IN q > limit \/ (q = limit /\ r > 0)

AddError(v, msg) == [v EXCEPT !.errors = Append(@, msg)]
AddWarning(v, msg) == [v EXCEPT !.warnings = Append(@, msg)]
AddInfo(v, msg) == [v EXCEPT !.info = Append(@, msg)]

\* self.thresholds[key] of a mapping without the key.
KeyError(v) == [v EXCEPT !.exc = "KeyError"]

Running(v) == v.exc = ""

\* Check IOPS
CheckIops(v, f, io, t) ==
    IF ~Running(v) THEN v
    ELSE IF "min_iops" \notin DOMAIN thresholds THEN KeyError(v)
    ELSE IF Get(io, "iops", 0) < thresholds["min_iops"]
         THEN AddWarning(v, <<"Low IOPS", f, t>>)
    ELSE v

\* Check bandwidth: bw / 1024 < min_bandwidth_mb
CheckBandwidth(v, f, io, t) ==
    IF ~Running(v) THEN v
    ELSE IF "min_bandwidth_mb" \notin DOMAIN thresholds THEN KeyError(v)
    ELSE IF Get(io, "bw", 0) < 1024 * thresholds["min_bandwidth_mb"]
         THEN AddWarning(v, <<"Low bandwidth", f, t>>)
    ELSE v

\* Check latency: mean and max of lat_ns
CheckLatency(v, f, io, t) ==
    LET lat_ns == Get(io, "lat_ns", <<>>) IN
    IF ~Running(v) \/ ~Truthy(lat_ns) THEN v
    ELSE IF "max_latency_ms" \notin DOMAIN thresholds THEN KeyError(v)
    ELSE LET v1 == IF ExceedsMs(Get(lat_ns, "mean", 0), thresholds["max_latency_ms"])
                   THEN AddWarning(v, <<"High mean latency", f, t>>) ELSE v
         IN IF ExceedsMs(Get(lat_ns, "max", 0), thresholds["max_latency_ms"] * 10)
            THEN AddWarning(v1, <<"Very high max latency", f, t>>) ELSE v1

\* Check latency percentiles of clat_ns
CheckPercentiles(v, f, io, t) ==
    LET clat_ns == Get(io, "clat_ns", <<>>) IN
    IF ~Running(v) \/ ~Truthy(clat_ns) \/ "percentile" \notin DOMAIN clat_ns THEN v
    ELSE LET pct == clat_ns["percentile"]
             p50 == Get(pct, "50.000000", 0)
             p99 == Get(pct, "99.000000", 0)
             p999 == Get(pct, "99.900000", 0)
         IN IF p50 <= 0 THEN v
            ELSE IF "latency_variance_threshold" \notin DOMAIN thresholds THEN KeyError(v)
            ELSE LET v1 == IF p999 > p50 * thresholds["latency_variance_threshold"]
                           THEN AddWarning(v, <<"High latency variance", f, t>>) ELSE v
                 IN IF p99 > p50 * 5
                    THEN AddInfo(v1, <<"latency spike detected", f, t>>) ELSE v1

\* Check IO depth distribution
CheckIoDepth(v, f, io, t) ==
    LET iodepth_level == Get(io, "iodepth_level", <<>>) IN
    IF ~Running(v) \/ ~Truthy(iodepth_level) THEN v
    ELSE IF Get(iodepth_level, "1", 0) > 95
         THEN AddInfo(v, <<"mostly at IO depth 1", f, t>>)
    ELSE v

\* Check for data integrity issues
CheckTotalIos(v, f, io, t) ==
    IF ~Running(v) THEN v
    ELSE IF Get(io, "total_ios", 0) = 0
         THEN [AddError(v, <<"No IOs completed", f, t>>) EXCEPT !.valid = FALSE]
    ELSE v

\* _validate_io_stats, and the caller's valid &= ...
validate_io_stats(v, f, io, t) ==
    CheckTotalIos(
        CheckIoDepth(
            CheckPercentiles(
                CheckLatency(
                    CheckBandwidth(
                        CheckIops(v, f, io, t), f, io, t), f, io, t), f, io, t), f, io, t),
        f, io, t)

\* Validate runtime
CheckRuntime(v, f, job) ==
    IF "min_runtime_seconds" \notin DOMAIN thresholds THEN KeyError(v)
    ELSE IF Get(job, "elapsed", 0) < thresholds["min_runtime_seconds"]
         THEN AddWarning(v, <<"Short runtime", f>>)
    ELSE v

\* Check for errors
CheckErrorCount(v, f, job) ==
    IF ~Running(v) THEN v
    ELSE IF Get(job, "error", 0) > 0
         THEN [AddError(v, <<"Test reported errors", f>>) EXCEPT !.valid = FALSE]
    ELSE v

\* Validate read/write performance if present
CheckDirection(v, f, job, t) ==
    IF Running(v) /\ t \in DOMAIN job THEN validate_io_stats(v, f, job[t], t) ELSE v

(* mutation of CheckJobStatus: the job runtime is not looked at *)
CheckJobStatus_Skipped(v, f, job) == v

\* Check job status
CheckJobStatus(v, f, job) ==
    IF ~Running(v) THEN v
    ELSE IF Get(job, "job_runtime", 0) = 0
         THEN [AddError(v, <<"Job runtime is 0", f>>) EXCEPT !.valid = FALSE]
    ELSE v

\* validate_fio_result on the file f whose json.load outcome is content,
\* from the lists of v: the lists afterwards, `ret` the value returned.
validate_fio_result(v, filepath, content) ==
    LET f == basename(filepath) IN
    IF content.st = "raise"
    THEN [AddError(v, <<"Failed to parse", filepath>>) EXCEPT !.valid = FALSE]
    ELSE IF ~Truthy(content.val) THEN [v EXCEPT !.valid = FALSE]
    ELSE IF "jobs" \notin DOMAIN content.val \/ Len(content.val["jobs"]) = 0
    THEN [AddError(v, <<"No job data found", f>>) EXCEPT !.valid = FALSE]
    ELSE LET job == content.val["jobs"][1] IN
         CheckJobStatus(
             CheckDirection(
                 CheckDirection(
                     CheckErrorCount(CheckRuntime(v, f, job), f, job),
                     f, job, "read"),
                 f, job, "write"),
             f, job)

\* Read and write sections of result files: a healthy one, one that
\* completed no I/O, one with nothing but zeros, a slow and uneven one.
SectionOk ==
    [iops |-> 500, bw |-> 2048, total_ios |-> 9,
     lat_ns |-> [mean |-> 750000, max |-> 900000],
     clat_ns |-> [percentile |->
         ("50.000000" :> 1000 @@ "99.000000" :> 2000 @@ "99.900000" :> 3000)]]

SectionNoIos == [iops |-> 500, bw |-> 2048, total_ios |-> 0]

SectionZero == [iops |-> 0, bw |-> 0, total_ios |-> 0]

SectionSlow ==
    [iops |-> 500, bw |-> 2048, total_ios |-> 9,
     lat_ns |-> [mean |-> 2000000000, max |-> 2000000000],
     clat_ns |-> [percentile |->
         ("50.000000" :> 1000 @@ "99.000000" :> 6000 @@ "99.900000" :> 20000)],
     iodepth_level |-> ("1" :> 99)]

\* The jobs of result files.
ValidatorJobs ==
    {[jobname |-> "job1", error |-> 0, elapsed |-> 60] @@ a @@ b @@ c :
        a \in Opt("job_runtime", {60000}),
        b \in Opt("read", {SectionOk, SectionNoIos, SectionZero, SectionSlow}),
        c \in Opt("write", {SectionOk, SectionNoIos})}
    \cup {[jobname |-> "job1", error |-> 2, elapsed |-> 10, read |-> SectionNoIos],
          [jobname |-> "job1", job_runtime |-> 0, read |-> SectionOk]}

\* What json.load gives for a result file.
FileContents ==
    {Raise("JSONDecodeError"), Return(<<>>), Return([jobs |-> <<>>]),
     Return([disk_util |-> <<>>])}
        \cup {Return([jobs |-> <<j>>]) : j \in ValidatorJobs}

FileNames == {"a.json", "b.json"}

NoCall == [op |-> "", arg |-> "", ret |-> Pending]

\* A validator object takes calls until its process ends; the validator and
\* the report generator are tools of their own, run one at a time.
CanCall == calls < MaxCalls /\ lastCall.op # "main" /\ collected = Pending

ValidatorIdle ==
    /\ results = <<>> /\ logs = <<>> /\ dirs = {}
    /\ thresholds = DefaultThresholds
    /\ errors = <<>> /\ warnings = <<>> /\ info = <<>>
    /\ lastCall = NoCall
    /\ calls = 0

\* __init__, on a results directory
ValidatorNew ==
    /\ results \in [FileNames -> FileContents]
    /\ logs = <<>> /\ dirs = {}
    /\ \E given \in CallerThresholds : thresholds = InitThresholds(given)
    /\ errors = <<>> /\ warnings = <<>> /\ info = <<>>
    /\ lastCall = NoCall
    /\ calls = 0

\* The lists when a call starts.
Entry == [errors |-> errors, warnings |-> warnings, info |-> info,
          valid |-> TRUE, exc |-> ""]

\* The lists a call leaves and what it returned or raised.
Leave(op, arg, v) ==
    /\ errors' = v.errors
    /\ warnings' = v.warnings
    /\ info' = v.info
    /\ lastCall' = [op |-> op, arg |-> arg,
                    ret |-> IF v.exc = "" THEN Return(v.valid) ELSE Raise(v.exc)]
    /\ calls' = calls + 1
    /\ UNCHANGED <<results, logs, dirs, thresholds, test_data, collected>>

ValidateFioResult ==
    /\ CanCall
    /\ \E f \in DOMAIN results :
           Leave("validate_fio_result", f, validate_fio_result(Entry, f, results[f]))

\* The first job of the file, when it has one.
JobOf(content) ==
    IF content.st = "return" /\ "jobs" \in DOMAIN content.val /\ content.val["jobs"] # <<>>
    THEN content.val["jobs"][1] ELSE <<>>

\* A result whose read section has total_ios = 0 and that is otherwise well
\* formed: no reported errors, a write section (if any) that did I/O.
ReadWithoutIos(job) ==
    /\ "read" \in DOMAIN job
    /\ "total_ios" \in DOMAIN job["read"] /\ job["read"]["total_ios"] = 0
    /\ Get(job, "error", 0) = 0
    /\ "write" \in DOMAIN job => Get(job["write"], "total_ios", 0) > 0

\* The job has only the fields of the documented input format.
DocumentedFormat(job) ==
    DOMAIN job \subseteq {"jobname", "read", "write", "sync", "error", "elapsed"}

\* Every limit the checks read is defined.
FullThresholds ==
    {"min_iops", "max_latency_ms", "latency_variance_threshold",
     "min_bandwidth_mb", "min_runtime_seconds"} \subseteq DOMAIN thresholds

\* The step is a validate_fio_result call on such a file.
C10_Call ==
    /\ calls' = calls + 1
    /\ lastCall'.op = "validate_fio_result"
    /\ ReadWithoutIos(JobOf(results[lastCall'.arg]))
    /\ FullThresholds

\* C10 (as stated): validate_fio_result on a file in the documented format
\* whose read section has total_ios = 0 appends exactly one entry to the
\* errors list and returns False.
C10_Original ==
    [][C10_Call /\ DocumentedFormat(JobOf(results[lastCall'.arg])) =>
          /\ Len(errors') = Len(errors) + 1
          /\ lastCall'.ret = Return(FALSE)]_vars

\* C10 (amended): validate_fio_result on such a file returns False and
\* appends the error "No read IOs completed"; when the job has no non-zero
\* job_runtime, as in the documented format, it appends "Job runtime is 0"
\* as well, two entries in all, and otherwise exactly one.
C10_NoIosIsAnError ==
    [][C10_Call =>
          LET f == lastCall'.arg
              job == JobOf(results[f])
          IN /\ lastCall'.ret = Return(FALSE)
             /\ errors' = errors \o << <<"No IOs completed", f, "read">> >>
                              \o IF Get(job, "job_runtime", 0) = 0
                                 THEN << <<"Job runtime is 0", f>> >> ELSE <<>>]_vars

\* A first call on a file in the documented format: two errors.
C10_Witness ==
    /\ calls = 1
    /\ lastCall.op = "validate_fio_result"
    /\ FullThresholds
    /\ ReadWithoutIos(JobOf(results[lastCall.arg]))
    /\ DocumentedFormat(JobOf(results[lastCall.arg]))
    /\ lastCall.ret = Return(FALSE)
    /\ errors = << <<"No IOs completed", lastCall.arg, "read">>,
                   <<"Job runtime is 0", lastCall.arg>> >>

\* The step is a validate_fio_result call that returned.
FioResultReturned ==
    /\ calls' = calls + 1
    /\ lastCall'.op = "validate_fio_result"
    /\ lastCall'.ret.st = "return"

\* C11: validate_fio_result returns False exactly when it appended at least
\* one entry to the errors list during that call; a call that recorded only
\* warnings or info returns True.
C11_Original ==
    [][FioResultReturned =>
          ((lastCall'.ret.val = FALSE) <=> (Len(errors') > Len(errors)))]_vars

(***************************************************************************)
(* Log files.  The text of a log is a sequence of lines and a line is the  *)
(* sequence of its whitespace-separated parts: a number or a word.         *)
(***************************************************************************)

Num(n) == [num |-> n]
Word(w) == [word |-> w]
IsNum(part) == "num" \in DOMAIN part

\* The substrings the validator looks for, and the words that contain them
\* (`in content.lower()` for the error words, `in content` for the metrics).
Containing ==
    [error |-> {"ERROR:", "errors"},
     failed |-> {"Failed"},
     abort |-> {"aborted"},
     crash |-> {},
     timeout |-> {"timeout"}]
    @@ "ops/sec" :> {"ops/sec", "ops/sec;"}
    @@ "micros/op" :> {"micros/op", "micros/op;"}
    @@ "MB/s" :> {"MB/s"}

Has(part, sub) == ~IsNum(part) /\ part.word \in Containing[sub]

LineHas(line, sub) == \E i \in 1..Len(line) : Has(line[i], sub)

ContentHas(lines, sub) == \E k \in 1..Len(lines) : LineHas(lines[k], sub)

\* content.lower().count(pattern)
RECURSIVE CountIn(_, _)
CountIn(parts, sub) ==
    IF parts = <<>> THEN 0
    ELSE (IF Has(Head(parts), sub) THEN 1 ELSE 0) + CountIn(Tail(parts), sub)

RECURSIVE Count(_, _)
Count(lines, sub) ==
    IF lines = <<>> THEN 0 ELSE CountIn(Head(lines), sub) + Count(Tail(lines), sub)

\* The loop over the parts of a line that holds `sub`: the number before a
\* part holding it is compared with the limit; a part before it that is not
\* a number makes float() raise, and the bare except ends the loop.
RECURSIVE ScanParts(_, _, _, _, _)
ScanParts(v, parts, i, sub, finding) ==
    IF i > Len(parts) THEN v
    ELSE IF Has(parts[i], sub) /\ i > 1
    THEN IF ~IsNum(parts[i - 1]) THEN v
         ELSE LET value == parts[i - 1].num
                  bad == IF sub = "ops/sec" THEN value < 10 ELSE value > 10000
              IN ScanParts(IF bad THEN AddWarning(v, finding) ELSE v,
                           parts, i + 1, sub, finding)
    ELSE ScanParts(v, parts, i + 1, sub, finding)

\* Extract and validate metrics, line by line
RECURSIVE ScanLines(_, _, _, _)
ScanLines(v, f, lines, k) ==
    IF k > Len(lines) THEN v
    ELSE LET line == lines[k]
             v1 == IF LineHas(line, "ops/sec")
                   THEN ScanParts(v, line, 1, "ops/sec", <<"Low ops/sec", f>>)
                   ELSE v
             v2 == IF LineHas(line, "micros/op")
                   THEN ScanParts(v1, line, 1, "micros/op", <<"High latency", f>>)
                   ELSE v1
         IN ScanLines(v2, f, lines, k + 1)

\* validate_rocksdb_result on the file whose read() outcome is content.
validate_rocksdb_result(v, filepath, content) ==
    LET f == basename(filepath) IN
    IF content.st = "raise"
    THEN [AddError(v, <<"Failed to read file", f>>) EXCEPT !.valid = FALSE]
    ELSE LET lines == content.val
             v1 == IF ContentHas(lines, "error") \/ ContentHas(lines, "failed")
                   THEN AddWarning(v, <<"Contains error messages", f>>) ELSE v
             v2 == IF ~ContentHas(lines, "ops/sec") /\ ~ContentHas(lines, "micros/op")
                   THEN [AddError(v1, <<"Missing performance metrics", f>>)
                            EXCEPT !.valid = FALSE]
                   ELSE v1
         IN ScanLines(v2, f, lines, 1)

\* Logs of db_bench runs and of the test harness.
LineFast == <<Word("fillseq"), Word(":"), Num(3), Word("micros/op"),
              Num(400000), Word("ops/sec;")>>
LineSlow == <<Word("readrandom"), Word(":"), Num(20000), Word("micros/op"),
              Num(5), Word("ops/sec;")>>
LineGarbled == <<Word("fillseq"), Word(":"), Word("n/a"), Word("ops/sec"),
                 Num(5), Word("ops/sec")>>
LineError == <<Word("ERROR:"), Word("write"), Word("Failed"), Word("timeout")>>

LogContents ==
    {Raise("OSError"), Return(<<>>), Return(<<LineFast>>), Return(<<LineSlow>>),
     Return(<<LineError, LineGarbled>>), Return(<<LineError, LineError>>)}

\* A file that is not there: open() raises.
ReadLog(p) == IF p \in DOMAIN logs THEN logs[p] ELSE Raise("FileNotFoundError")

RocksdbFiles == {"rocksdb/fillseq.log", "rocksdb/readrandom.log"}

ValidateRocksdbResult ==
    /\ CanCall
    /\ \E f \in RocksdbFiles :
           Leave("validate_rocksdb_result", f,
                 validate_rocksdb_result(Entry, f, ReadLog(f)))

\* The error patterns of check_log_files, in the order of the list.
error_patterns == <<"error", "failed", "abort", "crash", "timeout">>

\* Check for common error patterns in one log
RECURSIVE CheckPatterns(_, _, _, _)
CheckPatterns(v, f, lines, i) ==
    IF i > Len(error_patterns) THEN v
    ELSE LET pattern == error_patterns[i] IN
         CheckPatterns(IF ContentHas(lines, pattern)
                       THEN AddWarning(v, <<"Contains", f, pattern, Count(lines, pattern)>>)
                       ELSE v,
                       f, lines, i + 1)

\* The loop of check_log_files over the log files, in the order glob gave.
RECURSIVE CheckLogs(_, _, _)
CheckLogs(v, log_files, k) ==
    IF k > Len(log_files) THEN v
    ELSE LET f == basename(log_files[k])
             content == ReadLog(log_files[k])
         IN CheckLogs(IF content.st = "raise"
                      THEN AddError(v, <<"Failed to read log", f>>)
                      ELSE CheckPatterns(v, f, content.val, 1),
                      log_files, k + 1)

\* check_log_files, with the order glob gave the log files in.
check_log_files(v, log_files) ==
    IF "../logs" \notin dirs THEN AddInfo(v, <<"No log directory found">>)
    ELSE CheckLogs(v, log_files, 1)

CheckLogFiles ==
    /\ CanCall
    /\ \E log_files \in Listings(glob("../logs/*.log")) :
           Leave("check_log_files", "", check_log_files(Entry, log_files))

(***************************************************************************)
(* validate_test_completeness and check_result_consistency                 *)
(***************************************************************************)

\* expected_tests: the test types in the order of the dict, each with its
\* patterns, written from results_dir.
expected_tests ==
    << [test_type |-> "raw",
        patterns |-> <<"raw/qd_thread/qd*.json", "raw/blocksize/bs_*.json",
                       "raw/access_pattern/pattern_*.json", "raw/rwmix/rwmix_*.json",
                       "raw/distribution/dist_*.json", "raw/endurance/endurance_*.json">>],
       [test_type |-> "filesystem", patterns |-> <<"filesystem/fs_*.json">>],
       [test_type |-> "rocksdb", patterns |-> <<"rocksdb/*.log">>] >>

(* mutation of CheckPattern: a pattern without results is an error *)
CheckPattern_AsError(v, pattern) ==
    LET n == Cardinality(glob(pattern)) IN
    IF n = 0 THEN AddError(v, <<"No results found for", pattern>>)
    ELSE AddInfo(v, <<"Found results for", pattern, n>>)

\* for pattern in patterns: one warning or one info
CheckPattern(v, pattern) ==
    LET n == Cardinality(glob(pattern)) IN
    IF n = 0 THEN AddWarning(v, <<"No results found for", pattern>>)
    ELSE AddInfo(v, <<"Found results for", pattern, n>>)

RECURSIVE CheckPatternsOf(_, _, _)
CheckPatternsOf(v, patterns, i) ==
    IF i > Len(patterns) THEN v
    ELSE CheckPatternsOf(CheckPattern(v, patterns[i]), patterns, i + 1)

\* for test_type, patterns in expected_tests.items()
RECURSIVE CheckTypes(_, _)
CheckTypes(v, k) ==
    IF k > Len(expected_tests) THEN v
    ELSE LET t == expected_tests[k] IN
         CheckTypes(IF t.test_type \notin dirs
                    THEN AddWarning(v, <<"Missing test results directory", t.test_type>>)
                    ELSE CheckPatternsOf(v, t.patterns, 1),
                    k + 1)

validate_test_completeness(v) == CheckTypes(v, 1)

ValidateTestCompleteness ==
    /\ CanCall
    /\ Leave("validate_test_completeness", "", validate_test_completeness(Entry))

\* data['jobs'][0] of a list without elements
IndexError(v) == [v EXCEPT !.exc = "IndexError"]

\* The samples collected so far.
NoSamples == [iops |-> <<>>, bw |-> <<>>, lat |-> <<>>]

\* Collect metrics from read or write
CollectSection(m, job, io_type) ==
    IF io_type \notin DOMAIN job THEN m
    ELSE LET io_data == job[io_type]
             lat_ns == Get(io_data, "lat_ns", <<>>)
         IN [iops |-> Append(m.iops, Get(io_data, "iops", 0)),
             bw |-> Append(m.bw, Get(io_data, "bw", 0)),
             lat |-> IF Truthy(lat_ns) THEN Append(m.lat, Get(lat_ns, "mean", 0))
                     ELSE m.lat]

\* if data and 'jobs' in data
HasJobs(d) == Truthy(d) /\ "jobs" \in DOMAIN d

\* The loop over the matching files: the lists and the samples after it.
\* acc is [v |-> the lists, m |-> the samples].
RECURSIVE CollectFiles(_, _, _)
CollectFiles(acc, files, k) ==
    IF k > Len(files) \/ ~Running(acc.v) THEN acc
    ELSE LET filepath == files[k]
             content == results[filepath]
         IN IF content.st = "raise"
            THEN CollectFiles([acc EXCEPT !.v = AddError(@, <<"Failed to parse", filepath>>)],
                              files, k + 1)
            ELSE IF ~HasJobs(content.val) THEN CollectFiles(acc, files, k + 1)
            ELSE IF Len(content.val["jobs"]) = 0
            THEN [acc EXCEPT !.v = IndexError(@)]
            ELSE LET job == content.val["jobs"][1] IN
                 CollectFiles([acc EXCEPT !.m = CollectSection(
                                   CollectSection(@, job, "read"), job, "write")],
                              files, k + 1)

RECURSIVE Sum(_)
Sum(values) == IF values = <<>> THEN 0 ELSE Head(values) + Sum(Tail(values))

RECURSIVE SumSq(_)
SumSq(values) ==
    IF values = <<>> THEN 0 ELSE Head(values) * Head(values) + SumSq(Tail(values))

\* statistics.stdev(values) / statistics.mean(values) * 100 > 50, for two or
\* more whole numbers of positive mean: the sample variance
\* (n*SumSq - Sum^2) / (n*(n-1)) exceeds a quarter of the squared mean.
CvAbove50(values) ==
    LET n == Len(values)
        s == Sum(values)
    IN 4 * n * (n * SumSq(values) - s * s) > (n - 1) * s * s

(* mutation of HighVariation: the samples are not required to be positive *)
HighVariation_NoGuard(values) == Len(values) > 1 /\ CvAbove50(values)

\* if len(values) > 1 and all(v > 0 for v in values): ... if cv > 50
HighVariation(values) ==
    /\ Len(values) > 1
    /\ \A i \in 1..Len(values) : values[i] > 0
    /\ CvAbove50(values)

metric_names == <<"iops", "bw", "lat">>

\* Check coefficient of variation for each metric
RECURSIVE CheckVariation(_, _, _, _)
CheckVariation(v, test_pattern, m, i) ==
    IF i > Len(metric_names) THEN v
    ELSE LET metric_name == metric_names[i] IN
         CheckVariation(IF HighVariation(m[metric_name])
                        THEN AddWarning(v, <<"High variation", test_pattern, metric_name>>)
                        ELSE v,
                        test_pattern, m, i + 1)

\* check_result_consistency, with the order glob gave the files in.
check_result_consistency(v, test_pattern, files) ==
    IF Len(files) < 2 THEN v
    ELSE LET acc == CollectFiles([v |-> v, m |-> NoSamples], files, 1) IN
         IF ~Running(acc.v) THEN acc.v
         ELSE CheckVariation(acc.v, test_pattern, acc.m, 1)

\* The patterns validate_all checks.
ConsistencyPatterns ==
    <<"raw/qd_thread/qd*_jobs1_read.json", "raw/blocksize/bs_*_read.json">>

CheckResultConsistency ==
    /\ CanCall
    /\ \E i \in 1..Len(ConsistencyPatterns) :
           LET test_pattern == ConsistencyPatterns[i] IN
           \E files \in Listings(glob(test_pattern)) :
               Leave("check_result_consistency", test_pattern,
                     check_result_consistency(Entry, test_pattern, files))

(***************************************************************************)
(* generate_validation_report, validate_all and main                       *)
(***************************************************************************)

\* The lines of a section of the report: a heading and one line per entry;
\* nothing when the list is empty.
ReportSection(heading, entries) ==
    IF entries = <<>> THEN <<>>
    ELSE << <<heading>> >> \o [i \in 1..Len(entries) |-> <<"entry", entries[i]>>]

\* The lines of the report, but for the time stamp and the directory name.
ReportLines(v) ==
    << <<"SUMMARY">>, <<"Errors:", Len(v.errors)>>, <<"Warnings:", Len(v.warnings)>>,
       <<"Info:", Len(v.info)>> >>
    \o ReportSection("ERRORS (Must Fix)", v.errors)
    \o ReportSection("WARNINGS (Should Review)", v.warnings)
    \o ReportSection("INFORMATION", v.info)
    \o << <<"OVERALL STATUS">>,
          <<IF v.errors # <<>> THEN "VALIDATION FAILED - Errors detected"
            ELSE IF v.warnings # <<>> THEN "VALIDATION PASSED WITH WARNINGS"
            ELSE "VALIDATION PASSED">> >>

(* mutation of generate_validation_report: rendering consumes the lists *)
generate_validation_report_Consuming(v) ==
    [v |-> [v EXCEPT !.errors = <<>>, !.warnings = <<>>, !.info = <<>>],
     report |-> ReportLines(v)]

\* generate_validation_report: the lists it leaves and the text it returns.
generate_validation_report(v) == [v |-> v, report |-> ReportLines(v)]

GenerateValidationReport ==
    /\ CanCall
    /\ LET r == generate_validation_report(Entry) IN
       /\ errors' = r.v.errors
       /\ warnings' = r.v.warnings
       /\ info' = r.v.info
       /\ lastCall' = [op |-> "generate_validation_report", arg |-> "",
                       ret |-> Return(r.report)]
    /\ calls' = calls + 1
    /\ UNCHANGED <<results, logs, dirs, thresholds, test_data, collected>>

\* for filepath in fio_files: self.validate_fio_result(filepath)
RECURSIVE ValidateFioFiles(_, _, _)
ValidateFioFiles(v, files, k) ==
    IF k > Len(files) \/ ~Running(v) THEN v
    ELSE ValidateFioFiles(validate_fio_result(v, files[k], results[files[k]]), files, k + 1)

\* for filepath in rocksdb_files: self.validate_rocksdb_result(filepath)
RECURSIVE ValidateRocksdbFiles(_, _, _)
ValidateRocksdbFiles(v, files, k) ==
    IF k > Len(files) \/ ~Running(v) THEN v
    ELSE ValidateRocksdbFiles(validate_rocksdb_result(v, files[k], ReadLog(files[k])),
                              files, k + 1)

\* return len(self.errors) == 0
OverallStatus(v) == [v EXCEPT !.valid = (Len(v.errors) = 0)]

\* The steps of validate_all in the order of the code, with the orders glob
\* gave the files in: o.fio, o.rocksdb, o.qd, o.bs and o.logs.
ValidateAllStep(v, o, step) ==
    CASE step = 1 -> ValidateFioFiles(v, o.fio, 1)
      [] step = 2 -> ValidateRocksdbFiles(v, o.rocksdb, 1)
      [] step = 3 -> check_result_consistency(v, ConsistencyPatterns[1], o.qd)
      [] step = 4 -> check_result_consistency(v, ConsistencyPatterns[2], o.bs)
      [] step = 5 -> validate_test_completeness(v)
      [] step = 6 -> check_log_files(v, o.logs)
      [] OTHER -> OverallStatus(v)

\* validate_all from a step on: an exception ends it.
RECURSIVE ValidateAllFrom(_, _, _)
ValidateAllFrom(v, o, step) ==
    IF ~Running(v) \/ step > Len(<<"fio", "rocksdb", "qd", "bs", "tests", "logs", "status">>)
    THEN v
    ELSE ValidateAllFrom(ValidateAllStep(v, o, step), o, step + 1)

validate_all(v, o) == ValidateAllFrom(v, o, 1)

\* The matches of a pattern in the order a scan gave the files in.
Matching(scan, pattern) == SelectSeq(scan, LAMBDA p : pattern \in Paths[p].globs)

\* The orders a pass can meet the files in: one scan order of the result
\* files, which every glob over them follows, and one of each kind of log.
GlobOrders ==
    {[fio |-> scan,
      rocksdb |-> r,
      qd |-> Matching(scan, ConsistencyPatterns[1]),
      bs |-> Matching(scan, ConsistencyPatterns[2]),
      logs |-> l] :
        scan \in Listings(glob(AllJson)),
        r \in Listings(glob("rocksdb/*.log")),
        l \in Listings(glob("../logs/*.log"))}

ValidateAll ==
    /\ CanCall
    /\ \E o \in GlobOrders : Leave("validate_all", "", validate_all(Entry, o))

\* The end of a process: its exit status, and what validate_all had given.
Exit(code, valid) == [st |-> "exit", code |-> code, valid |-> valid]

\* --output: none, a file that can be written, a file in a missing directory.
OutputArgs == {None, <<"report.txt">>, <<"missing", "report.txt">>}

\* open(args.output, 'w') raises for a file that cannot be created.
CanWrite(output) == Len(output) = 1

(* mutation of ExitStatus: --strict is not looked at *)
ExitStatus_Lenient(v, strict) == IF ~v.valid THEN 1 ELSE 0

\* if not valid or (args.strict and validator.warnings): sys.exit(1)
ExitStatus(v, strict) == IF ~v.valid \/ (strict /\ v.warnings # <<>>) THEN 1 ELSE 0

\* main after the report was made: the report is written, and the status
\* follows from what validate_all returned and from the warnings.
WriteAndExit(va, r, args) ==
    IF Truthy(args.output) /\ ~CanWrite(args.output)
    THEN [v |-> r.v, exit |-> Exit(1, Return(va.valid))]
    ELSE [v |-> r.v,
          exit |-> Exit(ExitStatus([r.v EXCEPT !.valid = va.valid], args.strict),
                        Return(va.valid))]

\* main after validate_all: an exception nothing catches ends the process
\* with status 1.
ReportAndExit(va, args) ==
    IF ~Running(va) THEN [v |-> va, exit |-> Exit(1, Raise(va.exc))]
    ELSE WriteAndExit(va, generate_validation_report(va), args)

\* main after the validator was made: the lists it leaves and how the
\* process ends.
main(v, args, o) == ReportAndExit(validate_all(v, o), args)

\* python validate_results.py [--strict] [--output FILE] [--thresholds JSON]
Main ==
    /\ calls = 0 /\ MaxCalls > 0 /\ collected = Pending
    /\ \E strict \in BOOLEAN, output \in OutputArgs, o \in GlobOrders :
           LET args == [strict |-> strict, output |-> output]
               r == main(Entry, args, o)
           IN /\ errors' = r.v.errors
              /\ warnings' = r.v.warnings
              /\ info' = r.v.info
              /\ lastCall' = [op |-> "main", arg |-> args, ret |-> r.exit]
    /\ calls' = calls + 1
    /\ UNCHANGED <<results, logs, dirs, thresholds, test_data, collected>>

(***************************************************************************)
(* Results directories of validation runs.                                 *)
(***************************************************************************)

\* Sections of short runs.
SectionFast ==
    [iops |-> 200, bw |-> 2048, total_ios |-> 9, lat_ns |-> [mean |-> 900, max |-> 5000]]

SectionCrawl ==
    [iops |-> 20, bw |-> 2048, total_ios |-> 9, lat_ns |-> [mean |-> 900, max |-> 5000]]

JobFast == [jobname |-> "job1", error |-> 0, elapsed |-> 60, job_runtime |-> 60000,
            read |-> SectionFast]

JobCrawl == [jobname |-> "job1", error |-> 0, elapsed |-> 60, job_runtime |-> 60000,
             read |-> SectionCrawl]

JobNoIos == [jobname |-> "job1", error |-> 0, elapsed |-> 60, job_runtime |-> 60000,
             read |-> SectionFast, write |-> SectionNoIos]

\* What json.load gives for the files of a run: a file that is not JSON, an
\* empty document, documents without jobs, and documents with one job.
RunContents ==
    {Raise("JSONDecodeError"), Return(<<>>), Return([jobs |-> <<>>]),
     Return([disk_util |-> <<>>]), Return([jobs |-> <<JobFast>>]),
     Return([jobs |-> <<JobCrawl>>]), Return([jobs |-> <<JobNoIos>>])}

QdFiles == {"raw/qd_thread/qd1_jobs1_read.json", "raw/qd_thread/qd2_jobs1_read.json"}

\* Every pattern of expected_tests has a file.
CompleteJson ==
    {"raw/qd_thread/qd1_jobs1_read.json", "raw/blocksize/bs_4k_read.json",
     "raw/access_pattern/pattern_randread.json", "raw/rwmix/rwmix_r70_w30.json",
     "raw/distribution/dist_zipf.json", "raw/endurance/endurance_1h.json",
     "filesystem/fs_ext4.json"}

\* The files exist in directories that exist.
WellFormedDirs ==
    /\ DirsOfFiles(Files) \subseteq dirs
    /\ dirs \subseteq TopDirs

\* Two queue-depth results of any content, under any thresholds.
RunOfTwo ==
    /\ results \in [QdFiles -> RunContents]
    /\ logs = <<>> /\ dirs = {"raw"}
    /\ \E given \in CallerThresholds : thresholds = InitThresholds(given)

\* One good result beside db_bench and harness logs of any content.
RunWithLogs ==
    /\ results = ("filesystem/fs_ext4.json" :> Return([jobs |-> <<JobFast>>]))
    /\ logs \in UNION {[S -> LogContents] :
                         S \in SUBSET {"rocksdb/fillseq.log", "../logs/run.log"}}
    /\ dirs \in {DirsOfFiles(Files) \cup extra : extra \in SUBSET {"rocksdb", "../logs"}}
    /\ thresholds = DefaultThresholds

\* A complete run: a good result for every expected pattern and clean logs.
RunComplete ==
    /\ results = [p \in CompleteJson |-> Return([jobs |-> <<JobFast>>])]
    /\ logs \in {"rocksdb/fillseq.log" :> Return(<<LineFast>>),
                 "rocksdb/fillseq.log" :> Return(<<LineFast>>)
                     @@ "../logs/run.log" :> Return(<<LineFast>>)}
    /\ dirs = TopDirs
    /\ thresholds = DefaultThresholds

\* __init__, on the results directory of a run
ValidatorRun ==
    /\ RunOfTwo \/ RunWithLogs \/ RunComplete
    /\ WellFormedDirs
    /\ errors = <<>> /\ warnings = <<>> /\ info = <<>>
    /\ lastCall = NoCall
    /\ calls = 0

(***************************************************************************)
(* ReportGenerator.collect_test_data                                       *)
(*                                                                         *)
(* test_data maps a category to its tests, name |-> metrics.  The metrics  *)
(* of a result file are kept per direction (the fields read_iops,          *)
(* read_bw_mb, ... are metrics["read"]["iops"], metrics["read"]["bw_mb"],  *)
(* ...).                                                                   *)
(***************************************************************************)

\* os.path.basename(filepath).replace('.json', '') and .replace('.log', '')
TestNames ==
    [p \in DOMAIN Paths |->
        CASE p = "a.json" -> "a"
          [] p = "b.json" -> "b"
          [] p = "raw/qd_thread/qd1_jobs1_read.json" -> "qd1_jobs1_read"
          [] p = "raw/qd_thread/qd2_jobs1_read.json" -> "qd2_jobs1_read"
          [] p = "raw/qd_thread/qd4_jobs1_read.json" -> "qd4_jobs1_read"
          [] p = "raw/qd_thread/qd1_jobs1_write.json" -> "qd1_jobs1_write"
          [] p = "raw/blocksize/bs_4k_read.json" -> "bs_4k_read"
          [] p = "raw/blocksize/bs_64k_read.json" -> "bs_64k_read"
          [] p = "raw/blocksize/run2/bs_4k_read.json" -> "bs_4k_read"
          [] p = "raw/access_pattern/pattern_randread.json" -> "pattern_randread"
          [] p = "raw/rwmix/rwmix_r70_w30.json" -> "rwmix_r70_w30"
          [] p = "raw/distribution/dist_zipf.json" -> "dist_zipf"
          [] p = "raw/endurance/endurance_1h.json" -> "endurance_1h"
          [] p = "filesystem/fs_ext4.json" -> "fs_ext4"
          [] p = "rocksdb/fillseq.log" -> "fillseq"
          [] p = "rocksdb/readrandom.log" -> "readrandom"
          [] p = "../logs/run.log" -> "run"]

\* Extract read or write metrics
DirectionMetrics(job, io_type) ==
    IF io_type \notin DOMAIN job THEN <<>>
    ELSE LET io_data == job[io_type]
             percentiles == Get(Get(io_data, "clat_ns", <<>>), "percentile", <<>>)
             us(ns) == FDiv(FromInt(ns), FromInt(1000))
         IN io_type :>
                [iops |-> Get(io_data, "iops", 0),
                 bw_mb |-> FDiv(FromInt(Get(io_data, "bw", 0)), FromInt(1024)),
                 lat_mean_us |-> us(Get(Get(io_data, "lat_ns", <<>>), "mean", 0)),
                 p50_us |-> us(Get(percentiles, "50.000000", 0)),
                 p90_us |-> us(Get(percentiles, "90.000000", 0)),
                 p99_us |-> us(Get(percentiles, "99.000000", 0)),
                 p999_us |-> us(Get(percentiles, "99.900000", 0))]

\* extract_metrics: the metrics of a parsed document, or the exception
\* data['jobs'][0] raises.
extract_metrics(d) ==
    IF ~Truthy(d) \/ "jobs" \notin DOMAIN d THEN Return(<<>>)
    ELSE IF Len(d["jobs"]) = 0 THEN Raise("IndexError")
    ELSE LET job == d["jobs"][1] IN
         Return(DirectionMetrics(job, "read") @@ DirectionMetrics(job, "write"))

\* The loop over the result files of a category, in the order glob gave.
\* acc is [data |-> test_data, exc |-> the exception raised so far].
RECURSIVE CollectCategory(_, _, _, _)
CollectCategory(acc, category, files, k) ==
    IF k > Len(files) \/ acc.exc # "" THEN acc
    ELSE LET filepath == files[k]
             content == results[filepath]
         IN IF content.st = "raise" \/ ~Truthy(content.val)
            THEN CollectCategory(acc, category, files, k + 1)
            ELSE LET m == extract_metrics(content.val) IN
                 IF m.st = "raise" THEN [acc EXCEPT !.exc = m.exc]
                 ELSE IF ~Truthy(m.val) THEN CollectCategory(acc, category, files, k + 1)
                 ELSE CollectCategory(
                          [acc EXCEPT !.data[category] =
                               (TestNames[filepath] :> m.val) @@ @],
                          category, files, k + 1)

\* The last number before a part holding `sub`, over the parts of a line;
\* a part before it that is not a number changes nothing.
RECURSIVE LastValue(_, _, _, _)
LastValue(found, parts, i, sub) ==
    IF i > Len(parts) THEN found
    ELSE LastValue(IF Has(parts[i], sub) /\ i > 1 /\ IsNum(parts[i - 1])
                   THEN <<parts[i - 1].num>> ELSE found,
                   parts, i + 1, sub)

RECURSIVE LastValueIn(_, _, _, _)
LastValueIn(found, lines, k, sub) ==
    IF k > Len(lines) THEN found
    ELSE LastValueIn(LastValue(found, lines[k], 1, sub), lines, k + 1, sub)

\* parse_rocksdb_log: the metrics found in the log; none when it cannot be read.
parse_rocksdb_log(content) ==
    IF content.st = "raise" THEN <<>>
    ELSE LET field(key, sub) ==
                 LET found == LastValueIn(<<>>, content.val, 1, sub) IN
                 IF found = <<>> THEN <<>> ELSE key :> FromInt(found[1])
         IN field("ops_per_sec", "ops/sec") @@ field("micros_per_op", "micros/op")
                @@ field("throughput_mb", "MB/s")

RECURSIVE CollectRocksdb(_, _, _)
CollectRocksdb(acc, files, k) ==
    IF k > Len(files) \/ acc.exc # "" THEN acc
    ELSE CollectRocksdb(
             [acc EXCEPT !.data["rocksdb"] =
                  (TestNames[files[k]] :> parse_rocksdb_log(ReadLog(files[k]))) @@ @],
             files, k + 1)

NoTestData == [raw |-> <<>>, filesystem |-> <<>>, rocksdb |-> <<>>]

\* collect_test_data, with the orders glob gave the files in.
collect_test_data(o) ==
    CollectRocksdb(
        CollectCategory(
            CollectCategory([data |-> NoTestData, exc |-> ""], "raw", o.raw, 1),
            "filesystem", o.filesystem, 1),
        o.rocksdb, 1)

\* No report generator ran.
ReportIdle == test_data = NoTestData /\ collected = Pending

CollectTestData ==
    /\ collected = Pending /\ calls = 0
    /\ \E raw_files \in Listings(glob("raw/**/*.json")),
          fs_files \in Listings(glob("filesystem/*.json")),
          rocksdb_files \in Listings(glob("rocksdb/*.log")) :
           LET r == collect_test_data([raw |-> raw_files, filesystem |-> fs_files,
                                       rocksdb |-> rocksdb_files])
           IN /\ test_data' = r.data
              /\ collected' = IF r.exc = "" THEN Return(None) ELSE Raise(r.exc)
    /\ UNCHANGED <<results, logs, dirs, thresholds, errors, warnings, info,
                   lastCall, calls>>
    /\ UNCHANGED reportOutVars

\* The step is a call of op that the validator had not ended before.
Called(op) == calls' = calls + 1 /\ lastCall'.op = op

\* The step is a run of main whose errors are those a run without --strict
\* can leave.
StrictAddsNoError ==
    errors' \in {main(Entry, [strict |-> FALSE, output |-> lastCall'.arg.output], o).v.errors :
                    o \in GlobOrders}

\* validate_all, when it returns, returns True exactly when the errors list
\* is empty then, whatever the warnings.
ValidateAllStatus ==
    Called("validate_all") /\ lastCall'.ret.st = "return" =>
        (lastCall'.ret.val <=> errors' = <<>>)

\* C12 (as stated): validate_all returns True exactly when the errors list
\* is empty at the end of the pass; the exit status is 1 exactly when
\* validate_all returned False or --strict is set and the warnings list is
\* non-empty; strict mode never adds an entry to the errors list.
C12_Original ==
    [][/\ ValidateAllStatus
       /\ Called("main") =>
              /\ (lastCall'.ret.code = 1) <=>
                     \/ lastCall'.ret.valid = Return(FALSE)
                     \/ (lastCall'.arg.strict /\ warnings' # <<>>)
              /\ StrictAddsNoError]_vars

\* main ended by an exception that nothing caught: validate_all raised, or
\* the report could not be written to --output.
Uncaught(call) ==
    \/ call.ret.valid.st = "raise"
    \/ (Truthy(call.arg.output) /\ ~CanWrite(call.arg.output))

\* C12 (amended): validate_all, when it returns, returns True exactly when
\* the errors list is empty at the end of the pass; the exit status is 1
\* exactly when validate_all returned False, or --strict is set and the
\* warnings list is non-empty, or an uncaught exception ended the process,
\* and it is 0 otherwise; strict mode never adds an entry to the errors list.
C12_ExitStatus ==
    [][/\ ValidateAllStatus
       /\ Called("main") =>
              /\ lastCall'.ret.code \in {0, 1}
              /\ (lastCall'.ret.code = 1) <=>
                     \/ Uncaught(lastCall')
                     \/ lastCall'.ret.valid = Return(FALSE)
                     \/ (lastCall'.arg.strict /\ warnings' # <<>>)
              /\ StrictAddsNoError]_vars

\* A strict run that passed with warnings only: status 1, no error recorded.
C12_Witness ==
    /\ lastCall.op = "main"
    /\ lastCall.arg.strict
    /\ lastCall.ret.valid = Return(TRUE)
    /\ ~Uncaught(lastCall)
    /\ warnings # <<>> /\ errors = <<>>
    /\ lastCall.ret.code = 1

\* C13: across any sequence of validator operations the errors, warnings
\* and info lists only grow by appending (what was recorded stays, in its
\* place), and generate_validation_report leaves all three lists unchanged.
C13_ListsOnlyGrow ==
    [][/\ IsPrefix(errors, errors')
       /\ IsPrefix(warnings, warnings')
       /\ IsPrefix(info, info')
       /\ Called("generate_validation_report") =>
              UNCHANGED <<errors, warnings, info>>]_vars

\* A report rendered from three non-empty lists, which are still there.
C13_Witness ==
    /\ calls = 2
    /\ lastCall.op = "generate_validation_report"
    /\ errors # <<>> /\ warnings # <<>> /\ info # <<>>
    /\ lastCall.ret.val[2] = <<"Errors:", Len(errors)>>

(***************************************************************************)
(* Repeated runs of one test, for check_result_consistency.                *)
(***************************************************************************)

\* The read section of a run: its IOPS, bandwidth and mean latency (0 for a
\* section without lat_ns).
ReadOf(iops, bw, lat) ==
    [iops |-> iops, bw |-> bw, total_ios |-> 9]
        @@ IF lat = 0 THEN <<>> ELSE [lat_ns |-> [mean |-> lat, max |-> lat]]

\* The write section fio prints for a read-only job: nothing but zeros.
WriteIdle == [iops |-> 0, bw |-> 0, total_ios |-> 0, lat_ns |-> [mean |-> 0, max |-> 0]]

RepeatJobs ==
    {[jobname |-> "job1", error |-> 0, elapsed |-> 60, job_runtime |-> 60000,
      read |-> ReadOf(iops, other.bw, other.lat)] :
        iops \in {0, 50, 100, 200, 300},
        other \in {[bw |-> 512, lat |-> 0], [bw |-> 512, lat |-> 100],
                   [bw |-> 2048, lat |-> 400]}}
    \cup {[jobname |-> "job1", error |-> 0, elapsed |-> 60, job_runtime |-> 60000,
           read |-> ReadOf(100, 512, 100), write |-> WriteIdle]}

RepeatContents ==
    {Raise("JSONDecodeError"), Return(<<>>), Return([jobs |-> <<>>])}
        \cup {Return([jobs |-> <<j>>]) : j \in RepeatJobs}

RepeatFiles ==
    {"raw/qd_thread/qd1_jobs1_read.json", "raw/qd_thread/qd2_jobs1_read.json",
     "raw/qd_thread/qd4_jobs1_read.json"}

\* __init__, on a directory of up to three runs of the queue-depth test
ValidatorRepeats ==
    /\ results \in UNION {[S -> RepeatContents] : S \in SUBSET RepeatFiles}
    /\ logs = <<>>
    /\ dirs = DirsOfFiles(Files)
    /\ thresholds = DefaultThresholds
    /\ errors = <<>> /\ warnings = <<>> /\ info = <<>>
    /\ lastCall = NoCall
    /\ calls = 0

\* The files matching the pattern whose first job the loop reads.
Readable(pattern) ==
    {p \in glob(pattern) :
        /\ results[p].st = "return"
        /\ "jobs" \in DOMAIN results[p].val
        /\ results[p].val["jobs"] # <<>>}

\* The samples of the three metrics over the matching files: one for each
\* read or write section of the first job of each readable file.
RECURSIVE SamplesOver(_)
SamplesOver(files) ==
    IF files = <<>> THEN NoSamples
    ELSE LET job == results[Head(files)].val["jobs"][1] IN
         CollectSection(CollectSection(SamplesOver(Tail(files)), job, "read"),
                        job, "write")

Samples(pattern) == SamplesOver(OneOrder(Readable(pattern)))

\* The coefficient of variation of the samples is defined and exceeds 50.
CvExceeds50(values) == Len(values) > 1 /\ Sum(values) > 0 /\ CvAbove50(values)

\* The warnings the step appended.
NewWarnings ==
    {warnings'[i] : i \in (Len(warnings) + 1)..Len(warnings')}

\* The step appended a high-variation warning for the metric.
Warned(metric) == <<"High variation", lastCall'.arg, metric>> \in NewWarnings

\* C14 (as stated): check_result_consistency emits a high-variation warning
\* for a metric exactly when the coefficient of variation stdev/mean*100 of
\* the metric's values over the matching files exceeds 50.
C14_Original ==
    [][Called("check_result_consistency") =>
          \A metric \in {"iops", "bw", "lat"} :
              Warned(metric) <=> CvExceeds50(Samples(lastCall'.arg)[metric])]_vars

\* A matching file parsed to a document whose jobs array is empty.
EmptyJobsIn(pattern) ==
    \E p \in glob(pattern) :
        /\ results[p].st = "return"
        /\ "jobs" \in DOMAIN results[p].val
        /\ results[p].val["jobs"] = <<>>

\* C14 (amended): check_result_consistency emits a high-variation warning
\* for a metric exactly when at least two files match, none of them has an
\* empty jobs array (the call then raises IndexError and warns of nothing),
\* every sample of the metric is positive and the coefficient of variation
\* (sample standard deviation over mean, times 100) of the samples exceeds
\* 50; samples 100, 100, 100 give no warning, samples 50, 100, 200 give one.
C14_WarnsAboveHalf ==
    [][Called("check_result_consistency") =>
          LET pattern == lastCall'.arg
              m == Samples(pattern)
          IN /\ \A metric \in {"iops", "bw", "lat"} :
                    Warned(metric) <=>
                        /\ Cardinality(glob(pattern)) >= 2
                        /\ ~EmptyJobsIn(pattern)
                        /\ \A i \in 1..Len(m[metric]) : m[metric][i] > 0
                        /\ CvExceeds50(m[metric])
             /\ lastCall'.ret = Raise("IndexError") <=>
                    (Cardinality(glob(pattern)) >= 2 /\ EmptyJobsIn(pattern))
             /\ {m.iops[i] : i \in 1..Len(m.iops)} = {100} => ~Warned("iops")
             /\ (Len(m.iops) = 3 /\ {m.iops[i] : i \in 1..3} = {50, 100, 200}
                     /\ Cardinality(glob(pattern)) = 3)
                    => Warned("iops")]_vars

\* Three runs with IOPS 50, 100 and 200: one warning, for the IOPS.
C14_Witness ==
    /\ lastCall.op = "check_result_consistency"
    /\ lastCall.ret = Return(TRUE)
    /\ LET m == Samples(lastCall.arg) IN
       /\ Len(m.iops) = 3 /\ {m.iops[i] : i \in 1..3} = {50, 100, 200}
       /\ {m.bw[i] : i \in 1..3} = {512}
    /\ warnings = << <<"High variation", lastCall.arg, "iops">> >>

(***************************************************************************)
(* Results directories of complete and incomplete runs, for                *)
(* validate_test_completeness.                                             *)
(***************************************************************************)

\* The result files a run can have left: one or two for each pattern.
ExpectedJson == CompleteJson \cup {"raw/qd_thread/qd1_jobs1_write.json"}

ExpectedLogs == {"rocksdb/fillseq.log"}

\* __init__, on a directory holding any of these files; a directory of a
\* test type can exist without results in it.
ValidatorPartial ==
    /\ \E S \in SUBSET ExpectedJson :
           results = [p \in S |-> Return([jobs |-> <<JobFast>>])]
    /\ \E S \in SUBSET ExpectedLogs : logs = [p \in S |-> Return(<<LineFast>>)]
    /\ dirs \in {DirsOfFiles(Files) \cup extra :
                    extra \in SUBSET {"raw", "filesystem", "rocksdb"}}
    /\ thresholds = DefaultThresholds
    /\ errors = <<>> /\ warnings = <<>> /\ info = <<>>
    /\ lastCall = NoCall
    /\ calls = 0

\* The expected patterns, each with its test type.
ExpectedPatterns ==
    UNION {{[test_type |-> expected_tests[k].test_type,
             pattern |-> expected_tests[k].patterns[i]] :
                i \in 1..Len(expected_tests[k].patterns)} :
           k \in 1..Len(expected_tests)}

Unmatched == {e \in ExpectedPatterns : glob(e.pattern) = {}}

\* C15 (as stated): validate_test_completeness appends one warning for each
\* expected glob pattern that matches no file, for every one of the expected
\* patterns of the raw, filesystem and rocksdb test types, and it never
\* appends to the errors list.
C15_Original ==
    [][Called("validate_test_completeness") =>
          /\ \A e \in Unmatched : <<"No results found for", e.pattern>> \in NewWarnings
          /\ Len(warnings') = Len(warnings) + Cardinality(Unmatched)
          /\ errors' = errors]_vars

\* The test types whose directory under results_dir is missing.
MissingTypes == {e.test_type : e \in ExpectedPatterns} \ dirs

\* C15 (amended): validate_test_completeness appends one warning for each
\* test type (raw, filesystem, rocksdb) whose directory is missing, and, for
\* each test type whose directory exists, one warning for each of its
\* expected glob patterns that matches no file; these are all the warnings
\* it appends, and it never appends to the errors list.
C15_WarnsPerPatternOrType ==
    [][Called("validate_test_completeness") =>
          LET absent == {e \in Unmatched : e.test_type \in dirs} IN
          /\ NewWarnings =
                 {<<"No results found for", e.pattern>> : e \in absent}
                 \cup {<<"Missing test results directory", t>> : t \in MissingTypes}
          /\ Len(warnings') =
                 Len(warnings) + Cardinality(absent) + Cardinality(MissingTypes)
          /\ errors' = errors
          /\ lastCall'.ret = Return(TRUE)]_vars

\* A run with queue-depth results only and no rocksdb directory: five
\* warnings for the other raw patterns, one for the filesystem pattern, and
\* one for the missing directory.
C15_Witness ==
    /\ lastCall.op = "validate_test_completeness"
    /\ calls = 1
    /\ DOMAIN results = {"raw/qd_thread/qd1_jobs1_read.json"}
    /\ dirs = {"raw", "filesystem"}
    /\ Len(warnings) = 7
    /\ warnings[6] = <<"No results found for", "filesystem/fs_*.json">>
    /\ warnings[7] = <<"Missing test results directory", "rocksdb">>
    /\ errors = <<>>

\* C16: the thresholds are fixed at construction: a non-empty mapping from
\* the caller replaces the defaults as a whole (no key is merged in from
\* the defaults), otherwise the defaults are used, and no validator
\* operation modifies the thresholds afterwards.
C16_ThresholdsFixed ==
    [][/\ thresholds \in {DefaultThresholds} \cup {t \in CallerThresholds : t # <<>>}
       /\ thresholds' = thresholds]_vars

\* A validator made with two limits only still has just these two after two
\* calls, the last of which missed a limit.
C16_Witness ==
    /\ calls = 2
    /\ thresholds = [min_iops |-> 50, min_runtime_seconds |-> 30]
    /\ lastCall.ret = Raise("KeyError")

\* C17: in the batch passes validate_all and collect_test_data, a result
\* file that cannot be parsed as JSON, lacks a jobs array or has an empty
\* jobs array never aborts the pass: the pass completes (validate_all
\* returns a boolean, under thresholds that define every limit).
C17_Original ==
    [][/\ Called("validate_all") /\ FullThresholds =>
              /\ lastCall'.ret.st = "return"
              /\ lastCall'.ret.val \in BOOLEAN
       /\ collected' # collected => collected'.st = "return"]_vars

(***************************************************************************)
(* plot_all_figures_updated.main: the run-all orchestrator                 *)
(***************************************************************************)

\* scripts_to_run: the module names and the descriptions, in the listed order.
scripts_to_run ==
    << <<"plot_byte_addressable", "byte-addressable I/O performance">>,
       <<"plot_thermal_throttling", "thermal throttling analysis">>,
       <<"plot_blocksize", "block size comparison">>,
       <<"plot_qd_scalability", "queue depth scalability">>,
       <<"plot_access_pattern", "access pattern comparison">>,
       <<"plot_rwmix", "read/write mix performance">>,
       <<"plot_compression_comparison", "compression efficiency">>,
       <<"plot_pmr_latency_cdf", "PMR latency distribution">>,
       <<"plot_cmb_bandwidth", "CMB bandwidth utilization">> >>

\* What importing and calling a script can do: return, or raise an
\* Exception (a missing file, a missing module, a plotting error).
ScriptOutcomes == {"ok", "FileNotFoundError", "ImportError"}

\* main was not started.
OrchestratorIdle ==
    /\ orch_pc = "idle" /\ script_i = 0
    /\ imported = <<>> /\ successful_plots = <<>> /\ failed_plots = <<>>

\* The process starts.
OrchestratorStart ==
    /\ orch_pc = "start" /\ script_i = 0
    /\ imported = <<>> /\ successful_plots = <<>> /\ failed_plots = <<>>

\* output_dir.mkdir(parents=True, exist_ok=True): the directory is there
\* afterwards, or mkdir raises and main ends before the loop.
MakeOutputDir ==
    /\ orch_pc = "start"
    /\ \E made \in BOOLEAN :
           /\ orch_pc' = IF made THEN "loop" ELSE "raised"
           /\ script_i' = IF made THEN 1 ELSE 0
    /\ UNCHANGED <<imported, successful_plots, failed_plots>>

(* mutation of AfterScript: the exception of a script is not caught *)
AfterScript_Uncaught(lists, description, outcome) ==
    IF outcome = "ok"
    THEN [lists EXCEPT !.successful = Append(@, description)]
    ELSE [lists EXCEPT !.pc = "raised"]

\* The body of the loop after the script ran: try ... except Exception.
\* lists is [successful, failed, pc].
AfterScript(lists, description, outcome) ==
    IF outcome = "ok"
    THEN [lists EXCEPT !.successful = Append(@, description)]
    ELSE [lists EXCEPT !.failed = Append(@, <<description, outcome>>)]

\* One turn of the loop: the next script is imported and called.
RunScript ==
    /\ orch_pc = "loop" /\ script_i <= Len(scripts_to_run)
    /\ \E outcome \in ScriptOutcomes :
           LET script == scripts_to_run[script_i]
               after == AfterScript([successful |-> successful_plots,
                                     failed |-> failed_plots, pc |-> "loop"],
                                    script[2], outcome)
           IN /\ imported' = Append(imported, script[1])
              /\ successful_plots' = after.successful
              /\ failed_plots' = after.failed
              /\ orch_pc' = after.pc
              /\ script_i' = IF after.pc = "loop" THEN script_i + 1 ELSE script_i

\* After the loop: the summary is printed and main returns.
PrintSummary ==
    /\ orch_pc = "loop" /\ script_i > Len(scripts_to_run)
    /\ orch_pc' = "done"
    /\ UNCHANGED <<script_i, imported, successful_plots, failed_plots>>

\* How often a description is counted as successful, and as failed.
TimesSuccessful(description) ==
    Cardinality({k \in 1..Len(successful_plots) : successful_plots[k] = description})
TimesFailed(description) ==
    Cardinality({k \in 1..Len(failed_plots) : failed_plots[k][1] = description})

\* C18: the orchestrator attempts every listed script exactly once, in the
\* listed order, whatever the earlier scripts did: an exception raised by a
\* script is caught and recorded and never prevents a later script from
\* running, and at the end each script is counted in exactly one of the
\* successful and failed lists.
C18_EveryScriptOnce ==
    /\ orch_pc \in {"loop", "done"} =>
           /\ imported = [k \in 1..(script_i - 1) |-> scripts_to_run[k][1]]
           /\ \A k \in 1..Len(scripts_to_run) :
                  TimesSuccessful(scripts_to_run[k][2]) + TimesFailed(scripts_to_run[k][2])
                      = IF k < script_i THEN 1 ELSE 0
    /\ orch_pc = "done" => script_i = Len(scripts_to_run) + 1
    /\ orch_pc = "raised" => imported = <<>>

\* A run that ended although the first and the last script failed.
C18_Witness ==
    /\ orch_pc = "done"
    /\ Len(imported) = Len(scripts_to_run)
    /\ TimesFailed("byte-addressable I/O performance") = 1
    /\ TimesFailed("CMB bandwidth utilization") = 1
    /\ Len(successful_plots) = Len(scripts_to_run) - 2

(***************************************************************************)
(* plot_qd_scalability._discover_queue_depths and                          *)
(* plot_rwmix._discover_ratios: the parameter axis of a chart              *)
(***************************************************************************)

\* The roots the callers pass: Samsung and ScaleFlux, and the CXL directory
\* when resolve_cxl_path found one.
VendorLists == {<<"samsung", "scaleflux">>, <<"samsung", "scaleflux", "cxl">>}

\* The file names root.glob("jobs*_read.json") yields, each with the value
\* of int(p.stem.split("_")[0].replace("jobs", "")).
JobsFiles ==
    "jobs1_read.json" :> Return(1) @@ "jobs4_read.json" :> Return(4)
        @@ "jobs04_read.json" :> Return(4) @@ "jobs16_read.json" :> Return(16)
        @@ "jobs_read.json" :> Raise("ValueError")

\* The file names root.glob("rwmix_r*_w*.json") yields, each with
\* int(parts[1][1:]) and int(parts[2][1:]).
RwmixFiles ==
    "rwmix_r100_w0.json" :> Return(<<100, 0>>) @@ "rwmix_r70_w30.json" :> Return(<<70, 30>>)
        @@ "rwmix_r50_w50.json" :> Return(<<50, 50>>) @@ "rwmix_r70_w20.json" :> Return(<<70, 20>>)
        @@ "rwmix_rand_write.json" :> Raise("ValueError")

\* A root: None, a path that does not exist, or a directory and its files.
NoRoot == [path |-> FALSE, exists |-> FALSE, files |-> {}]
Roots(names) ==
    {NoRoot, [path |-> TRUE, exists |-> FALSE, files |-> {}]}
        \cup {[path |-> TRUE, exists |-> TRUE, files |-> S] : S \in SUBSET names}

\* if not root or not root.exists(): continue
Skipped(root) == ~root.path \/ ~root.exists

\* The label f"{read_pct}:{write_pct}" is modelled by the pair of the two
\* numbers; _ratio_key reads the first number back.
_ratio_label(read_pct, write_pct) == <<read_pct, write_pct>>
_ratio_key(label) == label[1]

\* sorted(S): the numbers of a set in ascending order.
RECURSIVE Sorted(_)
Sorted(S) ==
    IF S = {} THEN <<>>
    ELSE LET least == CHOOSE x \in S : \A y \in S : x <= y
         IN <<least>> \o Sorted(S \ {least})

\* sorted(set(discovered), key=_ratio_key, reverse=True): the sort is stable
\* and the set is enumerated in any order, so labels of equal key come in
\* any order.
SortedByKey(S) ==
    {q \in Orders(S) : \A i, j \in 1..Len(q) : i < j => _ratio_key(q[i]) >= _ratio_key(q[j])}

(* mutation of Keep: the values of the later roots are not intersected *)
Keep_All(axis_, discovered) == axis_

\* [value for value in qds if value in discovered]
Keep(axis_, discovered) ==
    SelectSeq(axis_, LAMBDA value :
                  \E k \in 1..Len(discovered) : discovered[k] = value)

\* The files of a root that the glob of a table yields.
Globbed(root, table) == root.files \cap DOMAIN table

\* Some file of the root has a number that int() rejects.
Unparsable(root, table) == \E f \in Globbed(root, table) : table[f].st = "raise"

\* The accumulator of the loops: None, or a list.
NoAxis == [none |-> TRUE, vals |-> <<>>]
SomeAxis(vals) == [none |-> FALSE, vals |-> vals]

\* _discover_queue_depths from root k on; qds is the list so far.
RECURSIVE QueueDepthsFrom(_, _, _)
QueueDepthsFrom(roots, k, qds) ==
    IF k > Len(roots)
    THEN IF qds.vals = <<>>
         THEN Raise("FileNotFoundError")
         ELSE Return(qds.vals)
    ELSE IF Skipped(roots[k]) THEN QueueDepthsFrom(roots, k + 1, qds)
    ELSE IF Unparsable(roots[k], JobsFiles) THEN Raise("ValueError")
    ELSE LET discovered ==
                 Sorted({JobsFiles[f].val : f \in Globbed(roots[k], JobsFiles)})
         IN QueueDepthsFrom(roots, k + 1,
                            IF qds.none THEN SomeAxis(discovered)
                            ELSE SomeAxis(Keep(qds.vals, discovered)))

_discover_queue_depths(roots) == QueueDepthsFrom(roots, 1, NoAxis)

\* _discover_ratios from root k on: the outcomes it can have.
RECURSIVE RatiosFrom(_, _, _)
RatiosFrom(roots, k, ratios) ==
    IF k > Len(roots)
    THEN IF ratios.vals = <<>>
         THEN {Raise("FileNotFoundError")}
         ELSE {Return(ratios.vals)}
    ELSE IF Skipped(roots[k]) THEN RatiosFrom(roots, k + 1, ratios)
    ELSE IF Unparsable(roots[k], RwmixFiles) THEN {Raise("ValueError")}
    ELSE LET labels == {_ratio_label(RwmixFiles[f].val[1], RwmixFiles[f].val[2]) :
                            f \in Globbed(roots[k], RwmixFiles)}
         IN UNION {RatiosFrom(roots, k + 1,
                              IF ratios.none THEN SomeAxis(discovered)
                              ELSE SomeAxis(Keep(ratios.vals, discovered))) :
                       discovered \in SortedByKey(labels)}

_discover_ratios(roots) == RatiosFrom(roots, 1, NoAxis)

\* No chart asked for its axis.
AxisIdle == paths = <<>> /\ axis = [fn |-> "", ret |-> Pending]

\* The vendors' directories of one chart, before the axis is discovered.
AxisFiles ==
    /\ axis = [fn |-> "", ret |-> Pending]
    /\ \E vendors \in VendorLists :
           paths \in [1..Len(vendors) -> Roots(DOMAIN JobsFiles)]
                         \cup [1..Len(vendors) -> Roots(DOMAIN RwmixFiles)]

DiscoverQueueDepths ==
    /\ axis.fn = ""
    /\ axis' = [fn |-> "_discover_queue_depths", ret |-> _discover_queue_depths(paths)]
    /\ UNCHANGED paths

DiscoverRatios ==
    /\ axis.fn = ""
    /\ \E ret \in _discover_ratios(paths) :
           axis' = [fn |-> "_discover_ratios", ret |-> ret]
    /\ UNCHANGED paths

\* The parameter values a root has a result file for (none when the root
\* is None or does not exist).
ValuesOf(root, table) == {table[f].val : f \in {g \in Globbed(root, table) : table[g].st = "return"}}

\* The table of the function that ran.
TableOf(fn) == IF fn = "_discover_queue_depths" THEN JobsFiles ELSE RwmixFiles

\* The values every one of the given roots has a result file for.
SharedValues(S, table) ==
    {v \in UNION {ValuesOf(paths[k], table) : k \in S} :
         \A k \in S : v \in ValuesOf(paths[k], table)}

\* The key an axis is sorted by, descending for ratios.
Before(fn, a, b) ==
    IF fn = "_discover_queue_depths" THEN a < b ELSE _ratio_key(a) >= _ratio_key(b)

\* A list has no duplicates, is in sorted order and holds exactly a set.
IsAxisOf(fn, q, S) ==
    /\ {q[k] : k \in 1..Len(q)} = S
    /\ \A i, j \in 1..Len(q) : i < j => q[i] # q[j] /\ Before(fn, q[i], q[j])

\* The original reading of C19: the axis is the set of values that every
\* vendor passed has a file for, a missing vendor having none.
C19_Original ==
    axis.ret.st = "return" =>
        IsAxisOf(axis.fn, axis.ret.val, SharedValues(DOMAIN paths, TableOf(axis.fn)))

\* The roots that are not skipped.
Existing == {k \in DOMAIN paths : ~Skipped(paths[k])}

\* C19: the axis returned by _discover_queue_depths and _discover_ratios is
\* exactly the set of parameter values for which every passed vendor
\* directory that exists has a result file, without duplicates, queue depths
\* ascending and ratios by descending read percentage; a root that is None
\* or does not exist is skipped.  The function raises ValueError when a
\* matching file of an existing root has a number that does not parse, and
\* otherwise FileNotFoundError when that set is empty or no root exists.
C19_AxisOfExistingRoots ==
    axis.fn # "" =>
        LET table == TableOf(axis.fn)
            shared == SharedValues(Existing, table)
        IN IF \E k \in Existing : Unparsable(paths[k], table)
           THEN axis.ret = Raise("ValueError")
           ELSE IF shared = {}
           THEN axis.ret = Raise("FileNotFoundError")
           ELSE /\ axis.ret.st = "return"
                /\ IsAxisOf(axis.fn, axis.ret.val, shared)

\* Two vendors with different files, a duplicate and an unshared value, and
\* a third whose directory does not exist: the axis holds the two queue
\* depths the two existing directories share, in numeric order.
C19_Witness ==
    /\ axis.fn = "_discover_queue_depths"
    /\ axis.ret.st = "return"
    /\ axis.ret.val = <<4, 16>>
    /\ Len(paths) = Len(<<"samsung", "scaleflux", "cxl">>)
    /\ paths[1].files = {"jobs1_read.json", "jobs4_read.json", "jobs16_read.json"}
    /\ paths[2].files = {"jobs04_read.json", "jobs4_read.json", "jobs16_read.json"}
    /\ paths[3].path /\ ~paths[3].exists

(***************************************************************************)
(* plot_blocksize.load_blocksize_data: the block-size axis and series      *)
(***************************************************************************)

\* The axis labels and, position by position, the sizes in the file names.
block_sizes ==
    <<"512B", "1K", "2K", "4K", "8K", "16K", "32K", "64K", "128K", "256K",
      "512K", "1M", "2M", "4M", "8M", "16M", "32M", "64M">>
bs_names ==
    <<"512", "1k", "2k", "4k", "8k", "16k", "32k", "64k", "128k", "256k",
      "512k", "1m", "2m", "4m", "8m", "16m", "32m", "64m">>

\* The vendors whose directories are read, in the order of the three loops.
BsVendors == <<"samsung", "scala", "cxl">>

\* The sizes a vendor directory has result files for in the modelled runs.
SizesOnDisk == {"512", "4k", "64k", "1m"}

\* A vendor directory: the sizes with a bs_<size>_read.json and a
\* bs_<size>_write.json, and whether these files hold a job with a bandwidth.
BsDirs == [sizes : SUBSET SizesOnDisk, readable : BOOLEAN]

\* One try/except: the value comes from the file when it opens, parses and
\* has the field, and is generated otherwise.
BsEntry(dir, bs) ==
    IF bs \in dir.sizes /\ dir.readable THEN "measured" ELSE "synthetic"

\* One loop over the eighteen sizes: a value is appended for every size.
BsSeries(dir) == [k \in 1..Len(bs_names) |-> BsEntry(dir, bs_names[k])]

\* load_blocksize_data: the axis is the whole list, and each vendor's read
\* and write series has a value for every size of it.
load_blocksize_data(dirs_) ==
    [block_sizes |-> block_sizes,
     read |-> [v \in DOMAIN dirs_ |-> BsSeries(dirs_[v])],
     write |-> [v \in DOMAIN dirs_ |-> BsSeries(dirs_[v])]]

\* The chart was not asked for.
BlocksizeIdle == bs_dirs = <<>> /\ bs_loaded = Pending

\* The three vendor directories before the chart is drawn.
BlocksizeFiles ==
    /\ bs_dirs \in [{BsVendors[k] : k \in 1..Len(BsVendors)} -> BsDirs]
    /\ bs_loaded = Pending

LoadBlocksizeData ==
    /\ bs_loaded = Pending
    /\ bs_loaded' = Return(load_blocksize_data(bs_dirs))
    /\ UNCHANGED bs_dirs

\* The three vendors have result files for 4k, 64k and 1m only, one of
\* them possibly for 512 as well.
OnlyThreeSizes ==
    /\ DOMAIN bs_dirs # {}
    /\ \A v \in DOMAIN bs_dirs :
           bs_dirs[v].readable /\ {"4k", "64k", "1m"} \subseteq bs_dirs[v].sizes
    /\ \E v \in DOMAIN bs_dirs : \A w \in DOMAIN bs_dirs \ {v} :
           bs_dirs[w].sizes = {"4k", "64k", "1m"}

\* C20: with the three vendors' block-size files present for 4k, 64k and 1m
\* only (one vendor may also have a 512 file), the axis of the chart is
\* exactly 4k, 64k, 1m in ascending byte order, without 512.
C20_Original ==
    OnlyThreeSizes /\ bs_loaded.st = "return" =>
        bs_loaded.val.block_sizes = <<"4K", "64K", "1M">>

(***************************************************************************)
(* The plotting scripts that draw a CXL series: plot_qd_scalability,       *)
(* plot_rwmix, plot_access_distribution, plot_endurance,                   *)
(* plot_access_pattern.  A series is modelled by where its values come     *)
(* from: the vendor's result files, or the Samsung values times the uplift *)
(***************************************************************************)

\* The test of each script.
ChartSubdir ==
    [plot_qd_scalability |-> "qd_thread", plot_rwmix |-> "rwmix",
     plot_access_distribution |-> "distribution", plot_endurance |-> "endurance",
     plot_access_pattern |-> "access_pattern"]

\* BASE_DIR / "samsung_raw/<test>" and BASE_DIR / "scala_raw/raw/<test>"
SamsungRoot(sd) == <<"samsung_raw", sd>>
ScalefluxRoot(sd) == <<"scala_raw", "raw", sd>>

\* The directories of one test.
ChartDirs(sd) ==
    {SamsungRoot(sd), ScalefluxRoot(sd)} \cup {Candidates(sd)[i] : i \in DOMAIN Candidates(sd)}

\* The directories that exist, those of them that hold every result file
\* of the test, the cxl entry of config_path.yaml for it, and the two
\* byte-addressable summaries.
ChartTree ==
    /\ \E sd \in {ChartSubdir[s] : s \in DOMAIN ChartSubdir} :
           /\ fsDirs \in SUBSET ChartDirs(sd)
           /\ config \in {None} \cup {Candidates(sd)[i] : i \in DOMAIN Candidates(sd)}
    /\ complete \in SUBSET fsDirs
    /\ subdir = None /\ resolved = NotCalled
    /\ chart = [script |-> "", ret |-> Pending]

ChartSummaries ==
    /\ samsung_csv \in {None, [cols |-> BothCols, rows |-> << <<"4k", <<"num", 1000>>>> >>]}
    /\ cxl_csv \in {None, [cols |-> BothCols, rows |-> << <<"4k", <<"num", 3000>>>> >>],
                    [cols |-> BothCols, rows |-> << <<"64k", <<"text">>>> >>]}
    /\ uplift = Pending

\* No script ran.
ChartIdle == complete = {} /\ config = None /\ chart = [script |-> "", ret |-> Pending]

\* path_if_exists
path_if_exists(p) == IF Exists(p) THEN p ELSE None

\* Loading a vendor's series from a root: a result file that is missing
\* ends the script.
LoadVendor(root) ==
    IF root \in complete THEN Return("measured") ELSE Raise("FileNotFoundError")

\* The CXL series of the scripts that fall back on the uplift: loaded from
\* the root when there is one, else derived from the Samsung series.
CxlSeries(cxl_path) ==
    IF cxl_path # None THEN LoadVendor(cxl_path)
    ELSE LET u == infer_cxl_uplift(samsung_csv, cxl_csv)
         IN IF u.st = "raise" THEN u ELSE Return("estimated")

\* A script that loads Samsung and ScaleFlux and then the CXL series.
PlotWithUplift(sd, cxl_path) ==
    IF LoadVendor(SamsungRoot(sd)).st = "raise" THEN LoadVendor(SamsungRoot(sd))
    ELSE IF LoadVendor(ScalefluxRoot(sd)).st = "raise" THEN LoadVendor(ScalefluxRoot(sd))
    ELSE CxlSeries(cxl_path)

plot_qd_scalability == PlotWithUplift("qd_thread", resolve_cxl_path("qd_thread"))
plot_rwmix == PlotWithUplift("rwmix", resolve_cxl_path("rwmix"))

\* cxl_root = path_if_exists(BASE_DIR / "cxl_raw/access_pattern")
plot_access_pattern ==
    PlotWithUplift("access_pattern", path_if_exists(<<"cxl_raw", "access_pattern">>))

\* _default_roots: the cxl root is the resolved one, else cxl_raw/raw/<test>.
_default_roots(sd) ==
    [samsung |-> SamsungRoot(sd), scaleflux |-> ScalefluxRoot(sd),
     cxl |-> IF resolve_cxl_path(sd) # None THEN resolve_cxl_path(sd)
             ELSE <<"cxl_raw", "raw", sd>>]

\* _resolve_roots: an entry of the configuration replaces the default.
_resolve_roots(sd) ==
    [_default_roots(sd) EXCEPT !.cxl = IF config # None THEN config ELSE @]

\* A script that loads the three roots, each of them mandatory.
PlotWithRoots(roots) ==
    IF LoadVendor(roots.samsung).st = "raise" THEN LoadVendor(roots.samsung)
    ELSE IF LoadVendor(roots.scaleflux).st = "raise" THEN LoadVendor(roots.scaleflux)
    ELSE LoadVendor(roots.cxl)

plot_access_distribution == PlotWithRoots(_resolve_roots("distribution"))
plot_endurance == PlotWithRoots(_resolve_roots("endurance"))

\* A script runs.
Plot(script, ret) ==
    /\ chart.script = ""
    /\ chart' = [script |-> script, ret |-> ret]
    /\ UNCHANGED <<complete, config, fsDirs, subdir, resolved, samsung_csv, cxl_csv, uplift>>

PlotQdScalability == Plot("plot_qd_scalability", plot_qd_scalability)
PlotRwmix == Plot("plot_rwmix", plot_rwmix)
PlotAccessDistribution == Plot("plot_access_distribution", plot_access_distribution)
PlotEndurance == Plot("plot_endurance", plot_endurance)
PlotAccessPattern == Plot("plot_access_pattern", plot_access_pattern)

\* The scripts that call resolve_cxl_path.
ResolverScripts ==
    {"plot_qd_scalability", "plot_rwmix", "plot_access_distribution", "plot_endurance"}

\* The Samsung and ScaleFlux result files of the script's test are there.
MandatoryPresent ==
    /\ chart.script # ""
    /\ SamsungRoot(ChartSubdir[chart.script]) \in complete
    /\ ScalefluxRoot(ChartSubdir[chart.script]) \in complete

\* C21: in every script that locates the CXL dataset through the resolver,
\* the absence of the dataset is never fatal: the CXL series is the Samsung
\* series times the uplift, and the script fails only when a Samsung or
\* ScaleFlux result file is missing.
C21_Original ==
    /\ chart.script \in ResolverScripts
    /\ MandatoryPresent
    /\ resolve_cxl_path(ChartSubdir[chart.script]) = None
    => chart.ret = Return("estimated")

\* C30: plot_access_pattern uses the measured CXL dataset whenever one of
\* the three layouts resolve_cxl_path knows exists for access_pattern, and
\* the uplift estimate only when none of them exists.
C30_Original ==
    chart.script = "plot_access_pattern" /\ MandatoryPresent =>
        IF resolve_cxl_path("access_pattern") = None
        THEN chart.ret.st = "return" => chart.ret = Return("estimated")
        ELSE chart.ret # Return("estimated")

(***************************************************************************)
(* ReportGenerator.generate_recommendations                                *)
(*                                                                         *)
(* summary_metrics maps a category to its figures.  A figure is a number   *)
(* or NaN (np.mean of no values); every comparison with NaN is false.      *)
(***************************************************************************)

NaN == [nan |-> TRUE, v |-> 0]
Fig(n) == [nan |-> FALSE, v |-> n]
Below(x, limit) == ~x.nan /\ x.v < limit
Above(x, limit) == ~x.nan /\ x.v > limit

\* The summaries calculate_summary can leave: a category is absent, or has
\* all of its figures.
Summaries ==
    {r @@ f @@ k :
        r \in {<<>>} \cup
              {"raw" :> [avg_read_iops |-> a, avg_write_iops |-> b,
                         peak_read_bw_mb |-> c, avg_read_lat_us |-> d] :
                   a \in {NaN, Fig(9999), Fig(10000)}, b \in {NaN, Fig(4999), Fig(5000)},
                   c \in {Fig(999), Fig(1000)}, d \in {NaN, Fig(1000), Fig(1001)}},
        f \in {<<>>} \cup
              {"filesystem" :> [overhead_pct |-> o] : o \in {Fig(-5), Fig(20), Fig(21)}},
        k \in {<<>>} \cup
              {"rocksdb" :> [avg_latency_us |-> l, avg_ops_per_sec |-> t] :
                   l \in {NaN, Fig(100), Fig(101)}, t \in {NaN, Fig(9999), Fig(10000)}}}

\* The entries a test appends: one when it holds, none otherwise.
When(test, entry) == IF test THEN <<entry>> ELSE <<>>

(* mutation of RawRecommendations: the write test comes before the read test *)
RawRecommendations_WriteFirst(r) ==
    When(Below(r.avg_write_iops, 5000), "Low random write IOPS")
        \o When(Below(r.avg_read_iops, 10000), "Low random read IOPS")
        \o When(Below(r.peak_read_bw_mb, 1000), "Sequential read bandwidth below 1GB/s")
        \o When(Above(r.avg_read_lat_us, 1000), "High average read latency")

\* if 'raw' in self.summary_metrics: the four tests in their order.
RawRecommendations(r) ==
    When(Below(r.avg_read_iops, 10000), "Low random read IOPS")
        \o When(Below(r.avg_write_iops, 5000), "Low random write IOPS")
        \o When(Below(r.peak_read_bw_mb, 1000), "Sequential read bandwidth below 1GB/s")
        \o When(Above(r.avg_read_lat_us, 1000), "High average read latency")

\* if 'filesystem' in self.summary_metrics
FilesystemRecommendations(f) == When(Above(f.overhead_pct, 20), "Filesystem overhead")

\* if 'rocksdb' in self.summary_metrics
RocksdbRecommendations(k) ==
    When(Above(k.avg_latency_us, 100), "RocksDB operation latency is high")
        \o When(Below(k.avg_ops_per_sec, 10000), "Low RocksDB throughput")

\* General recommendations
GeneralRecommendations ==
    <<"Enable CPU affinity", "Consider using io_uring", "Monitor device temperature">>

generate_recommendations(s) ==
    IF s = <<>> THEN <<"Insufficient data to generate recommendations">>
    ELSE (IF "raw" \in DOMAIN s THEN RawRecommendations(s["raw"]) ELSE <<>>)
             \o (IF "filesystem" \in DOMAIN s
                 THEN FilesystemRecommendations(s["filesystem"]) ELSE <<>>)
             \o (IF "rocksdb" \in DOMAIN s
                 THEN RocksdbRecommendations(s["rocksdb"]) ELSE <<>>)
             \o GeneralRecommendations

\* No summary was calculated and no recommendation asked for.
RecommendIdle == summary_metrics = <<>> /\ recommendations = Pending

RecommendSummaries == summary_metrics \in Summaries /\ recommendations = Pending

GenerateRecommendations ==
    /\ recommendations = Pending
    /\ recommendations' = Return(generate_recommendations(summary_metrics))
    /\ UNCHANGED summary_metrics

\* The threshold-triggered recommendations in their fixed order, each with
\* the category it belongs to and whether the summary triggers it.
Triggers ==
    LET s == summary_metrics
        Has_(c) == c \in DOMAIN s
    IN << <<"Low random read IOPS", Has_("raw") /\ Below(s["raw"].avg_read_iops, 10000)>>,
          <<"Low random write IOPS", Has_("raw") /\ Below(s["raw"].avg_write_iops, 5000)>>,
          <<"Sequential read bandwidth below 1GB/s",
            Has_("raw") /\ Below(s["raw"].peak_read_bw_mb, 1000)>>,
          <<"High average read latency", Has_("raw") /\ Above(s["raw"].avg_read_lat_us, 1000)>>,
          <<"Filesystem overhead",
            Has_("filesystem") /\ Above(s["filesystem"].overhead_pct, 20)>>,
          <<"RocksDB operation latency is high",
            Has_("rocksdb") /\ Above(s["rocksdb"].avg_latency_us, 100)>>,
          <<"Low RocksDB throughput",
            Has_("rocksdb") /\ Below(s["rocksdb"].avg_ops_per_sec, 10000)>> >>

\* A list ends with the three generic recommendations, and before them
\* holds exactly the triggered ones, once each, in the fixed order.
EndsGeneric(list) ==
    /\ Len(list) >= Len(GeneralRecommendations)
    /\ SubSeq(list, Len(list) - Len(GeneralRecommendations) + 1, Len(list))
           = GeneralRecommendations
    /\ LET first == SubSeq(list, 1, Len(list) - Len(GeneralRecommendations))
           Pos(t) == {i \in 1..Len(first) : first[i] = Triggers[t][1]}
       IN /\ \A i \in 1..Len(first) : \E t \in DOMAIN Triggers : i \in Pos(t)
          /\ \A t \in DOMAIN Triggers :
                 Cardinality(Pos(t)) = IF Triggers[t][2] THEN 1 ELSE 0
          /\ \A t, u \in DOMAIN Triggers, i, j \in 1..Len(first) :
                 t < u /\ i \in Pos(t) /\ j \in Pos(u) => i < j

\* C22 as stated: for every state of the summary the list ends with the
\* three generic recommendations.
C22_Original ==
    recommendations # Pending => EndsGeneric(recommendations.val)

\* C22: for every summary that has at least one category the list holds the
\* triggered recommendations in the fixed order raw, filesystem, rocksdb and
\* then the three generic ones; for the empty summary it is the single entry
\* "Insufficient data to generate recommendations".
C22_GenericUnlessEmpty ==
    recommendations # Pending =>
        IF summary_metrics = <<>>
        THEN recommendations.val = <<"Insufficient data to generate recommendations">>
        ELSE EndsGeneric(recommendations.val)

\* Every category triggers something, NaN figures trigger nothing.
C22_Witness ==
    /\ recommendations # Pending
    /\ DOMAIN summary_metrics = {"raw", "filesystem", "rocksdb"}
    /\ summary_metrics["raw"].avg_read_iops = NaN
    /\ summary_metrics["rocksdb"].avg_latency_us = NaN
    /\ recommendations.val =
           <<"Low random write IOPS", "Sequential read bandwidth below 1GB/s",
             "Filesystem overhead", "Low RocksDB throughput">> \o GeneralRecommendations

(***************************************************************************)
(* ReportGenerator.generate_report                                         *)
(*                                                                         *)
(* A file name is the sequence of its parts, an extension being one part   *)
(* ("report.html" is <<"report", ".html">>).  A written file is kept by    *)
(* its format and, for the CSV, its rows; the text of a document is not    *)
(* modelled.                                                               *)
(***************************************************************************)

\* --format: argparse lets html and markdown through; the constructor takes
\* any string.
Formats == {"html", "markdown", "pdf"}

\* --output: no name, names with either extension, and names without.
OutputNames ==
    {None, <<"report", ".html">>, <<"report", ".md">>, <<"report", ".txt">>,
     <<"report">>, <<"summary", ".csv">>}

\* str.replace: every occurrence of old becomes new.
Replace(name, old, new) ==
    [i \in 1..Len(name) |-> IF name[i] = old THEN new ELSE name[i]]

\* f"test_report_{timestamp}{ext}"
DefaultReportFile(ext) == <<"test_report_", "timestamp", ext>>

\* generate_csv_summary: a row for every test of the three categories.
generate_csv_summary(td) ==
    {[test_type |-> c, test_name |-> n] :
        c \in {"raw"}, n \in DOMAIN td.raw}
    \cup {[test_type |-> c, test_name |-> n] :
        c \in {"filesystem"}, n \in DOMAIN td.filesystem}
    \cup {[test_type |-> c, test_name |-> n] :
        c \in {"rocksdb"}, n \in DOMAIN td.rocksdb}

Document(format) == [format |-> format, rows |-> {}]

Csv(rows) == [format |-> "csv", rows |-> rows]

\* Save report, then save CSV summary: the files there are after both
\* writes, the later write replacing a file of the same name.
SaveBoth(files, report_file, format, ext, td) ==
    (Replace(report_file, ext, ".csv") :> Csv(generate_csv_summary(td)))
        @@ (report_file :> Document(format)) @@ files

\* generate_report after the data was collected: the files there are when
\* it returns.
WriteReport(files, format, output, td) ==
    IF format \notin {"html", "markdown"} THEN files
    ELSE LET ext == IF format = "html" THEN ".html" ELSE ".md"
             report_file == IF Truthy(output) THEN output ELSE DefaultReportFile(ext)
         IN SaveBoth(files, report_file, format, ext, td)

\* No report was asked for.
ReportOutIdle ==
    output_format = "html" /\ output_file = None /\ written = <<>> /\ generated = Pending

\* A run with two results of one base name in different directories of raw.
SameNameFiles ==
    {"raw/blocksize/bs_4k_read.json", "raw/blocksize/run2/bs_4k_read.json",
     "filesystem/fs_ext4.json"}

SameNameContents ==
    {Raise("JSONDecodeError"), Return([jobs |-> <<>>]),
     Return([jobs |-> <<JobFast>>]), Return([jobs |-> <<JobCrawl>>])}

\* __init__ of a validator or a report generator on such a directory
ReportRun ==
    /\ results \in UNION {[S -> SameNameContents] : S \in SUBSET SameNameFiles}
    /\ logs \in {<<>>, "rocksdb/fillseq.log" :> Return(<<LineFast>>)}
    /\ dirs = DirsOfFiles(Files)
    /\ thresholds = DefaultThresholds
    /\ errors = <<>> /\ warnings = <<>> /\ info = <<>>
    /\ lastCall = NoCall
    /\ calls = 0

\* ReportGenerator(results_dir, output_format)
ReportNew ==
    output_format \in Formats /\ output_file = None /\ written = <<>>
        /\ generated = Pending

GenerateReport ==
    /\ generated = Pending /\ collected = Pending /\ calls = 0
    /\ \E output \in OutputNames,
          raw_files \in Listings(glob("raw/**/*.json")),
          fs_files \in Listings(glob("filesystem/*.json")),
          rocksdb_files \in Listings(glob("rocksdb/*.log")) :
           LET r == collect_test_data([raw |-> raw_files, filesystem |-> fs_files,
                                       rocksdb |-> rocksdb_files])
           IN /\ output_file' = output
              /\ test_data' = r.data
              /\ collected' = IF r.exc = "" THEN Return(None) ELSE Raise(r.exc)
              /\ generated' = collected'
              /\ written' = IF r.exc # "" THEN written
                            ELSE WriteReport(written, output_format, output, r.data)
    /\ UNCHANGED <<results, logs, dirs, thresholds, errors, warnings, info,
                   lastCall, calls, output_format>>

\* The documents and the CSV files there are.
Documents == {f \in DOMAIN written : written[f].format \in {"html", "markdown"}}

CsvWritten == {f \in DOMAIN written : written[f].format = "csv"}

\* C27 (as stated): the report document and the CSV summary are written to
\* two different paths for every --output name, so the CSV never overwrites
\* the report that was just written.
C27_Original ==
    generated = Return(None) /\ output_format \in {"html", "markdown"} =>
        Cardinality(Documents) = 1 /\ Cardinality(CsvWritten) = 1

\* C23 (as stated): generate_report with format html or markdown writes
\* exactly one report document, in the selected format, and a CSV holding
\* one row per collected test of the three categories.
C23_Original ==
    generated # Pending /\ output_format \in {"html", "markdown"} =>
        /\ \E f \in DOMAIN written :
               Documents = {f} /\ written[f].format = output_format
        /\ \E f \in DOMAIN written :
               /\ CsvWritten = {f}
               /\ written[f].rows = generate_csv_summary(test_data)

\* The raw result files that were parsed and yielded metrics.
RawWithMetrics ==
    {p \in glob("raw/**/*.json") :
        /\ results[p].st = "return" /\ Truthy(results[p].val)
        /\ extract_metrics(results[p].val).st = "return"
        /\ Truthy(extract_metrics(results[p].val).val)}

\* C28 (as stated): after collect_test_data the raw category has as many
\* entries as raw result files were parsed and yielded metrics; no two
\* files are stored under the same key.
C28_Original ==
    collected = Return(None) =>
        Cardinality(DOMAIN test_data.raw) = Cardinality(RawWithMetrics)

(***************************************************************************)
(* PMRMonitor (monitor_pmr.py)                                             *)
(*                                                                         *)
(* A counter file gives, when read, an exception or its text; a text is    *)
(* [int |-> whether int() accepts it, v |-> the integer it then gives].    *)
(* Time is counted in whole seconds.                                       *)
(***************************************************************************)

StatNames ==
    {"pmr_size", "pmr_used", "pmr_reads", "pmr_writes", "pmr_read_latency_ns",
     "pmr_write_latency_ns"}

IntText(n) == Return([int |-> TRUE, v |-> n])

Garbage == Return([int |-> FALSE, v |-> 0])

\* open() and read() of a counter file; the reads in `failing` raise
\* inside the try block (an I/O error, or an interrupt delivered there).
ReadFile(files, stat_name, failing) ==
    IF stat_name \in failing THEN Raise("OSError")
    ELSE IF stat_name \notin DOMAIN files THEN Raise("FileNotFoundError")
    ELSE files[stat_name]

(* mutation of read_stat: a failure of one counter fails the later ones *)
read_stat_Sticky(files, stat_name, failing) ==
    LET content == ReadFile(files, stat_name, failing) IN
    IF content.st = "raise" \/ ~content.val.int \/ "pmr_size" \in failing THEN 0
    ELSE content.val.v

\* read_stat: the integer in the file, 0 when anything was raised.
read_stat(files, stat_name, failing) ==
    LET content == ReadFile(files, stat_name, failing) IN
    IF content.st = "raise" \/ ~content.val.int THEN 0
    ELSE content.val.v

\* Calculate utilization; the integer 0 of the else branch is the float 0.
Utilization(pmr_size, pmr_used) ==
    IF pmr_size > 0
    THEN FMul(FDiv(FromInt(pmr_used), FromInt(pmr_size)), FromInt(100))
    ELSE FromInt(0)

monitor_once(files, failing) ==
    [pmr_size |-> read_stat(files, "pmr_size", failing),
     pmr_used |-> read_stat(files, "pmr_used", failing),
     pmr_reads |-> read_stat(files, "pmr_reads", failing),
     pmr_writes |-> read_stat(files, "pmr_writes", failing),
     pmr_read_latency_ns |-> read_stat(files, "pmr_read_latency_ns", failing),
     pmr_write_latency_ns |-> read_stat(files, "pmr_write_latency_ns", failing),
     pmr_utilization |->
         Utilization(read_stat(files, "pmr_size", failing),
                     read_stat(files, "pmr_used", failing))]

NoStats == [reads |-> <<>>, writes |-> <<>>, latency |-> <<>>, bandwidth |-> <<>>]

NoArgs == [interval |-> 1, duration |-> None, export |-> None]

\* No monitor ran.
MonitorIdle ==
    /\ euid = 0 /\ device_path = "absent" /\ sysfs = <<>> /\ mon_args = NoArgs
    /\ mon_pc = "idle" /\ clock = 0 /\ start_time = 0
    /\ last_counts = [reads |-> 0, writes |-> 0] /\ stats = NoStats
    /\ sample = None /\ sampled = <<>> /\ trace = <<>> /\ exit_code = None

\* What the files of a device can hold.
SizeContents == {Raise("FileNotFoundError"), Garbage, IntText(0), IntText(0 - 1), IntText(4)}

UsedContents == {Raise("PermissionError"), Garbage, IntText(1), IntText(3)}

CounterContents == {Raise("FileNotFoundError"), Garbage, IntText(7)}

\* PMRMonitor(device) on a device whose files hold any of these.
MonitorFiles ==
    /\ euid = 0 /\ device_path = "pmr" /\ mon_args = NoArgs
    /\ \E size \in SizeContents, used \in UsedContents,
          c \in [StatNames \ {"pmr_size", "pmr_used"} -> CounterContents] :
           sysfs = ("pmr_size" :> size) @@ ("pmr_used" :> used) @@ c
    /\ mon_pc = "object" /\ clock = 0 /\ start_time = 0
    /\ last_counts = [reads |-> 0, writes |-> 0] /\ stats = NoStats
    /\ sample = None /\ sampled = <<>> /\ trace = <<>> /\ exit_code = None

\* monitor_once called on the object; any of the reads can fail.
MonitorOnce ==
    /\ mon_pc = "object" /\ sample = None
    /\ \E failing \in {{}, {"pmr_size"}, {"pmr_reads", "pmr_used"}} :
           /\ sample' = monitor_once(sysfs, failing)
           /\ trace' = Append(trace, [op |-> "monitor_once", failing |-> failing])
    /\ UNCHANGED <<euid, device_path, sysfs, mon_args, mon_pc, clock, start_time,
                   last_counts, stats, sampled, exit_code>>

\* What a read of the counter gives when nothing goes wrong with the file.
HoldsInt(stat_name, failing) ==
    /\ stat_name \notin failing
    /\ sysfs[stat_name].st = "return" /\ sysfs[stat_name].val.int

\* The counter of the sample is the integer in its file, or 0, whatever
\* happened to the other files.
OwnFileOnly(stat_name, failing) ==
    sample[stat_name] =
        IF HoldsInt(stat_name, failing) THEN sysfs[stat_name].val.v ELSE 0

\* used / size * 100, for the sizes and uses whose percentage is a whole
\* number.
Percentage(pmr_size, pmr_used) ==
    IF pmr_size > 0 THEN ExactInt((pmr_used * 100) \div pmr_size) ELSE ExactInt(0)

\* C24: monitor_once reads each of the six counters independently: a
\* counter whose file is missing, unreadable or not an integer is 0 and the
\* other five are what their files hold, nothing is raised, and
\* pmr_utilization is used/size*100 when pmr_size > 0 and 0 otherwise.
C24_CountersFailSoft ==
    sample # None =>
        LET failing == trace[Len(trace)].failing IN
        /\ \A stat_name \in StatNames : OwnFileOnly(stat_name, failing)
        /\ sample.pmr_utilization = Percentage(sample.pmr_size, sample.pmr_used)

\* One counter failed, the others were read, and the device is in use.
C24_Witness ==
    /\ sample # None
    /\ sample.pmr_reads = 0 /\ ~HoldsInt("pmr_reads", trace[Len(trace)].failing)
    /\ sample.pmr_writes = 7 /\ sample.pmr_size = 4 /\ sample.pmr_used = 3
    /\ sample.pmr_utilization = ExactInt(75)

(***************************************************************************)
(* monitor_pmr.py: main and monitor_continuous                             *)
(*                                                                         *)
(* --duration and the exit status are None (<<>>) or <<n>>.  The trace     *)
(* lists what main did: the checks, the samples, the interrupts            *)
(* delivered, the summary and the export.                                  *)
(***************************************************************************)

MaxSamples == 3

\* The clock is followed as far as the samples need it.
MaxClock == MaxSamples + 1

Event(op) == [op |-> op, failing |-> {}]

\* The times op happened.
Times(op) == Cardinality({k \in 1..Len(trace) : trace[k].op = op})

TimesAfter(op) == Cardinality({k \in 1..Len(trace') : trace'[k].op = op})

\* The files of a device at work: reads and writes are counted.
DeviceFiles(reads, writes) ==
    ("pmr_size" :> IntText(4)) @@ ("pmr_used" :> IntText(1))
        @@ ("pmr_reads" :> IntText(reads)) @@ ("pmr_writes" :> IntText(writes))
        @@ ("pmr_read_latency_ns" :> IntText(7))
        @@ ("pmr_write_latency_ns" :> IntText(7))

\* The counters of the device.
Counters == [reads |-> sysfs["pmr_reads"].val.v, writes |-> sysfs["pmr_writes"].val.v]

\* The command lines: --interval, --duration and --export.
MonitorArgs ==
    [interval : {0 - 1, 0, 1}, duration : {None, <<0>>, <<1>>, <<2>>},
     export : {None, <<"stats.json">>}]

\* main is started, by any user, on any device.
MonitorStart ==
    /\ euid \in {0, 1000}
    /\ device_path \in {"absent", "nopmr", "pmr"}
    /\ sysfs = DeviceFiles(5, 2)
    /\ mon_args \in MonitorArgs
    /\ mon_pc = "main" /\ clock = 0 /\ start_time = 0
    /\ last_counts = [reads |-> 0, writes |-> 0] /\ stats = NoStats
    /\ sample = None /\ sampled = <<>> /\ trace = <<>> /\ exit_code = None

(* mutation of AfterPrivilege: the monitor goes on without privilege *)
AfterPrivilege_Ignored(uid) == "privileged"

\* if os.geteuid() != 0: sys.exit(1)
AfterPrivilege(uid) == IF uid # 0 THEN "exit" ELSE "privileged"

\* Check if running as root
CheckPrivilege ==
    /\ mon_pc = "main"
    /\ trace' = Append(trace, Event("geteuid"))
    /\ mon_pc' = AfterPrivilege(euid)
    /\ exit_code' = IF mon_pc' = "exit" THEN <<1>> ELSE exit_code
    /\ UNCHANGED <<euid, device_path, sysfs, mon_args, clock, start_time,
                   last_counts, stats, sample, sampled>>

\* check_device: the device exists and has a PMR.
check_device(path) == path = "pmr"

\* Create monitor, check device, and enter monitor_continuous up to the
\* loop.
CheckDevice ==
    /\ mon_pc = "privileged"
    /\ trace' = Append(trace, Event("check_device"))
    /\ IF check_device(device_path)
       THEN /\ mon_pc' = "loop"
            /\ start_time' = clock
            /\ last_counts' = [reads |-> 0, writes |-> 0]
            /\ sampled' = <<Counters>>
            /\ UNCHANGED exit_code
       ELSE /\ mon_pc' = "exit"
            /\ exit_code' = <<1>>
            /\ UNCHANGED <<start_time, last_counts, sampled>>
    /\ UNCHANGED <<euid, device_path, sysfs, mon_args, clock, stats, sample>>

\* if duration and (time.time() - start_time) > duration
Expired(duration, elapsed) ==
    duration # None /\ duration[1] # 0 /\ elapsed > duration[1]

\* break
Expire ==
    /\ mon_pc = "loop"
    /\ Expired(mon_args.duration, clock - start_time)
    /\ mon_pc' = "summary"
    /\ UNCHANGED <<euid, device_path, sysfs, mon_args, clock, start_time,
                   last_counts, stats, sample, sampled, trace, exit_code>>

\* Calculate deltas
Deltas(s, before) ==
    [reads |-> s.pmr_reads - before.reads, writes |-> s.pmr_writes - before.writes]

\* What can go wrong inside read_stat while a sample is taken: nothing, an
\* I/O error on a counter, or an interrupt delivered there, which the bare
\* except takes as well.
SampleFaults ==
    {[failing |-> {}, interrupted |-> FALSE],
     [failing |-> {"pmr_reads"}, interrupted |-> FALSE],
     [failing |-> {"pmr_writes"}, interrupted |-> TRUE]}

\* One pass of the loop up to time.sleep.
Sample ==
    /\ mon_pc = "loop"
    /\ ~Expired(mon_args.duration, clock - start_time)
    /\ Len(stats.reads) < MaxSamples
    /\ \E fault \in SampleFaults :
           LET s == monitor_once(sysfs, fault.failing)
               d == Deltas(s, last_counts)
           IN /\ sample' = s
              /\ last_counts' = [reads |-> s.pmr_reads, writes |-> s.pmr_writes]
              /\ stats' = [stats EXCEPT !.reads = Append(@, d.reads),
                                        !.writes = Append(@, d.writes),
                                        !.latency = Append(@, s.pmr_read_latency_ns)]
              /\ trace' = trace
                     \o (IF fault.interrupted THEN <<Event("KeyboardInterrupt")>>
                         ELSE <<>>)
                     \o <<[op |-> "monitor_once", failing |-> fault.failing]>>
    /\ sampled' = Append(sampled, Counters)
    /\ mon_pc' = "sleep"
    /\ UNCHANGED <<euid, device_path, sysfs, mon_args, clock, start_time, exit_code>>

\* time.sleep(interval): a negative interval raises ValueError, which
\* nothing catches; otherwise time passes and the device works on.
Sleep ==
    /\ mon_pc = "sleep"
    /\ IF mon_args.interval < 0
       THEN /\ mon_pc' = "raised" /\ exit_code' = <<1>>
            /\ UNCHANGED <<clock, sysfs>>
       ELSE /\ clock < MaxClock
            /\ \E passed \in {mon_args.interval, 1}, work \in 0..1 :
                   /\ clock' = clock + passed
                   /\ sysfs' = DeviceFiles(Counters.reads + work, Counters.writes + work)
            /\ mon_pc' = "loop"
            /\ UNCHANGED exit_code
    /\ UNCHANGED <<euid, device_path, mon_args, start_time, last_counts, stats,
                   sample, sampled, trace>>

\* except KeyboardInterrupt: an interrupt delivered in the loop outside
\* read_stat.
Interrupt ==
    /\ mon_pc \in {"loop", "sleep"}
    /\ trace' = Append(trace, Event("KeyboardInterrupt"))
    /\ mon_pc' = "summary"
    /\ UNCHANGED <<euid, device_path, sysfs, mon_args, clock, start_time,
                   last_counts, stats, sample, sampled, exit_code>>

\* self.print_summary()
PrintMonitorSummary ==
    /\ mon_pc = "summary"
    /\ trace' = Append(trace, Event("print_summary"))
    /\ mon_pc' = "export"
    /\ UNCHANGED <<euid, device_path, sysfs, mon_args, clock, start_time,
                   last_counts, stats, sample, sampled, exit_code>>

\* Export if requested, and the end of main.
ExportStats ==
    /\ mon_pc = "export"
    /\ trace' = IF Truthy(mon_args.export) THEN Append(trace, Event("export_stats"))
                ELSE trace
    /\ mon_pc' = "done"
    /\ exit_code' = <<0>>
    /\ UNCHANGED <<euid, device_path, sysfs, mon_args, clock, start_time,
                   last_counts, stats, sample, sampled>>

\* The step delivers an interrupt.
Interrupted == TimesAfter("KeyboardInterrupt") > Times("KeyboardInterrupt")

\* C25 (as stated): monitor_continuous called with a duration leaves the
\* loop without an interrupt once the elapsed time exceeds that duration,
\* for every duration the command line accepts, 0 included; an interrupt
\* ends the loop wherever it arrives; the summary runs exactly once, after
\* the loop.
C25_Original ==
    [][/\ (mon_pc = "loop" /\ mon_args.duration # None
              /\ clock - start_time > mon_args.duration[1]) => mon_pc' = "summary"
       /\ Interrupted => mon_pc' = "summary"
       /\ TimesAfter("print_summary") > Times("print_summary") =>
              mon_pc = "summary" /\ Times("print_summary") = 0]_vars

\* The positions of op in the trace.
At(op) == {k \in 1..Len(trace) : trace[k].op = op}

\* C26: the privilege is checked once and first; without it main exits
\* with status 1 before the device is probed or a counter read; with it but
\* without the device or its PMR main exits 1 before any sample; no sample
\* and no export happens before both checks passed.
C26_ChecksFirst ==
    /\ Times("geteuid") <= 1
    /\ trace # <<>> => trace[1].op = "geteuid"
    /\ mon_pc # "main" /\ euid # 0 =>
           trace = <<Event("geteuid")>> /\ mon_pc = "exit" /\ exit_code = <<1>>
    /\ mon_pc \notin {"main", "privileged"} /\ euid = 0 /\ ~check_device(device_path) =>
           /\ trace = <<Event("geteuid"), Event("check_device")>>
           /\ mon_pc = "exit" /\ exit_code = <<1>>
    /\ \A k \in At("monitor_once") \cup At("export_stats") :
           /\ euid = 0 /\ check_device(device_path)
           /\ k > 2 /\ trace[2].op = "check_device"
    /\ stats # NoStats => At("monitor_once") # {}

\* A privileged run on a device without PMR ended with status 1 after the
\* two checks.
C26_Witness ==
    /\ euid = 0 /\ device_path = "nopmr" /\ mon_pc = "exit" /\ exit_code = <<1>>
    /\ trace = <<Event("geteuid"), Event("check_device")>>

\* C29 (as stated): every read and write delta recorded equals the increase
\* of the device counter between two consecutive samples (for the first
\* sample, since monitoring started), and is not negative as the counters
\* never decrease; so also after a failed read.
C29_Original ==
    \A k \in 1..Len(stats.reads) :
        /\ stats.reads[k] = sampled[k + 1].reads - sampled[k].reads
        /\ stats.writes[k] = sampled[k + 1].writes - sampled[k].writes
        /\ stats.reads[k] >= 0 /\ stats.writes[k] >= 0

(***************************************************************************)
(* Specifications: one per helper, the other helpers idle.                 *)
(***************************************************************************)

InitResolver ==
    ResolverFiles /\ LoadIdle /\ SectionIdle /\ MetricsIdle
        /\ UpliftIdle /\ ValidatorIdle /\ ReportIdle /\ OrchestratorIdle
        /\ AxisIdle /\ BlocksizeIdle /\ ChartIdle /\ RecommendIdle
        /\ ReportOutIdle /\ MonitorIdle
NextResolver ==
    ResolveCxlPath
        /\ UNCHANGED <<loadVars, sectionVars, metricsVars, upliftVars,
                      validatorVars, reportVars, orchestratorVars, axisVars,
                      blocksizeVars, chartVars, recommendVars, reportOutVars,
                      monitorVars>>
SpecResolver == InitResolver /\ [][NextResolver]_vars

InitLoad ==
    ResolverIdle /\ LoadFiles /\ SectionIdle /\ MetricsIdle
        /\ UpliftIdle /\ ValidatorIdle /\ ReportIdle /\ OrchestratorIdle
        /\ AxisIdle /\ BlocksizeIdle /\ ChartIdle /\ RecommendIdle
        /\ ReportOutIdle /\ MonitorIdle
NextLoad ==
    LoadFioJson
        /\ UNCHANGED <<resolverVars, sectionVars, metricsVars, upliftVars,
                      validatorVars, reportVars, orchestratorVars, axisVars,
                      blocksizeVars, chartVars, recommendVars, reportOutVars,
                      monitorVars>>
SpecLoad == InitLoad /\ [][NextLoad]_vars

InitSection ==
    ResolverIdle /\ LoadIdle /\ SectionFiles /\ MetricsIdle
        /\ UpliftIdle /\ ValidatorIdle /\ ReportIdle /\ OrchestratorIdle
        /\ AxisIdle /\ BlocksizeIdle /\ ChartIdle /\ RecommendIdle
        /\ ReportOutIdle /\ MonitorIdle
NextSection ==
    FromJobSection
        /\ UNCHANGED <<resolverVars, loadVars, metricsVars, upliftVars,
                      validatorVars, reportVars, orchestratorVars, axisVars,
                      blocksizeVars, chartVars, recommendVars, reportOutVars,
                      monitorVars>>
SpecSection == InitSection /\ [][NextSection]_vars

InitMetrics ==
    ResolverIdle /\ LoadIdle /\ SectionIdle /\ MetricsFiles
        /\ UpliftIdle /\ ValidatorIdle /\ ReportIdle /\ OrchestratorIdle
        /\ AxisIdle /\ BlocksizeIdle /\ ChartIdle /\ RecommendIdle
        /\ ReportOutIdle /\ MonitorIdle
NextMetrics ==
    LoadFioJobMetrics
        /\ UNCHANGED <<resolverVars, loadVars, sectionVars, upliftVars,
                      validatorVars, reportVars, orchestratorVars, axisVars,
                      blocksizeVars, chartVars, recommendVars, reportOutVars,
                      monitorVars>>
SpecMetrics == InitMetrics /\ [][NextMetrics]_vars

InitUplift ==
    ResolverIdle /\ LoadIdle /\ SectionIdle /\ MetricsIdle
        /\ UpliftFiles /\ ValidatorIdle /\ ReportIdle /\ OrchestratorIdle
        /\ AxisIdle /\ BlocksizeIdle /\ ChartIdle /\ RecommendIdle
        /\ ReportOutIdle /\ MonitorIdle
NextUplift ==
    InferCxlUplift
        /\ UNCHANGED <<resolverVars, loadVars, sectionVars, metricsVars,
                      validatorVars, reportVars, orchestratorVars, axisVars,
                      blocksizeVars, chartVars, recommendVars, reportOutVars,
                      monitorVars>>
SpecUplift == InitUplift /\ [][NextUplift]_vars

InitValidator ==
    ResolverIdle /\ LoadIdle /\ SectionIdle /\ MetricsIdle /\ UpliftIdle
        /\ ValidatorNew /\ ReportIdle /\ OrchestratorIdle /\ AxisIdle
        /\ BlocksizeIdle /\ ChartIdle /\ RecommendIdle /\ ReportOutIdle
        /\ MonitorIdle
NextValidator ==
    ValidateFioResult
        /\ UNCHANGED <<resolverVars, loadVars, sectionVars, metricsVars,
                      upliftVars, reportVars, orchestratorVars, axisVars,
                      blocksizeVars, chartVars, recommendVars, reportOutVars,
                      monitorVars>>
SpecValidator == InitValidator /\ [][NextValidator]_vars

InitRun ==
    ResolverIdle /\ LoadIdle /\ SectionIdle /\ MetricsIdle /\ UpliftIdle
        /\ ValidatorRun /\ ReportIdle /\ OrchestratorIdle /\ AxisIdle
        /\ BlocksizeIdle /\ ChartIdle /\ RecommendIdle /\ ReportOutIdle
        /\ MonitorIdle
NextRun ==
    (\/ ValidateFioResult
     \/ ValidateRocksdbResult
     \/ CheckResultConsistency
     \/ ValidateTestCompleteness
     \/ CheckLogFiles
     \/ GenerateValidationReport
     \/ ValidateAll
     \/ Main
     \/ CollectTestData)
        /\ UNCHANGED <<resolverVars, loadVars, sectionVars, metricsVars,
                      upliftVars, orchestratorVars, axisVars, blocksizeVars,
                      chartVars, recommendVars, reportOutVars, monitorVars>>
SpecRun == InitRun /\ [][NextRun]_vars

InitConsistency ==
    ResolverIdle /\ LoadIdle /\ SectionIdle /\ MetricsIdle /\ UpliftIdle
        /\ ValidatorRepeats /\ ReportIdle /\ OrchestratorIdle /\ AxisIdle
        /\ BlocksizeIdle /\ ChartIdle /\ RecommendIdle /\ ReportOutIdle
        /\ MonitorIdle
NextConsistency ==
    CheckResultConsistency
        /\ UNCHANGED <<resolverVars, loadVars, sectionVars, metricsVars,
                      upliftVars, reportVars, orchestratorVars, axisVars,
                      blocksizeVars, chartVars, recommendVars, reportOutVars,
                      monitorVars>>
SpecConsistency == InitConsistency /\ [][NextConsistency]_vars

InitCompleteness ==
    ResolverIdle /\ LoadIdle /\ SectionIdle /\ MetricsIdle /\ UpliftIdle
        /\ ValidatorPartial /\ ReportIdle /\ OrchestratorIdle /\ AxisIdle
        /\ BlocksizeIdle /\ ChartIdle /\ RecommendIdle /\ ReportOutIdle
        /\ MonitorIdle
NextCompleteness ==
    ValidateTestCompleteness
        /\ UNCHANGED <<resolverVars, loadVars, sectionVars, metricsVars,
                      upliftVars, reportVars, orchestratorVars, axisVars,
                      blocksizeVars, chartVars, recommendVars, reportOutVars,
                      monitorVars>>
SpecCompleteness == InitCompleteness /\ [][NextCompleteness]_vars

InitOrchestrator ==
    ResolverIdle /\ LoadIdle /\ SectionIdle /\ MetricsIdle /\ UpliftIdle
        /\ ValidatorIdle /\ ReportIdle /\ OrchestratorStart /\ AxisIdle
        /\ BlocksizeIdle /\ ChartIdle /\ RecommendIdle /\ ReportOutIdle
        /\ MonitorIdle
NextOrchestrator ==
    (\/ MakeOutputDir
     \/ RunScript
     \/ PrintSummary)
        /\ UNCHANGED <<resolverVars, loadVars, sectionVars, metricsVars,
                      upliftVars, validatorVars, reportVars, axisVars,
                      blocksizeVars, chartVars, recommendVars, reportOutVars,
                      monitorVars>>
SpecOrchestrator == InitOrchestrator /\ [][NextOrchestrator]_vars

InitAxis ==
    ResolverIdle /\ LoadIdle /\ SectionIdle /\ MetricsIdle /\ UpliftIdle
        /\ ValidatorIdle /\ ReportIdle /\ OrchestratorIdle /\ AxisFiles
        /\ BlocksizeIdle /\ ChartIdle /\ RecommendIdle /\ ReportOutIdle
        /\ MonitorIdle
NextAxis ==
    (\/ DiscoverQueueDepths
     \/ DiscoverRatios)
        /\ UNCHANGED <<resolverVars, loadVars, sectionVars, metricsVars,
                      upliftVars, validatorVars, reportVars,
                      orchestratorVars, blocksizeVars, chartVars,
                      recommendVars, reportOutVars, monitorVars>>
SpecAxis == InitAxis /\ [][NextAxis]_vars

InitBlocksize ==
    ResolverIdle /\ LoadIdle /\ SectionIdle /\ MetricsIdle /\ UpliftIdle
        /\ ValidatorIdle /\ ReportIdle /\ OrchestratorIdle /\ AxisIdle
        /\ BlocksizeFiles /\ ChartIdle /\ RecommendIdle /\ ReportOutIdle
        /\ MonitorIdle
NextBlocksize ==
    LoadBlocksizeData
        /\ UNCHANGED <<resolverVars, loadVars, sectionVars, metricsVars,
                      upliftVars, validatorVars, reportVars,
                      orchestratorVars, axisVars, chartVars, recommendVars,
                      reportOutVars, monitorVars>>
SpecBlocksize == InitBlocksize /\ [][NextBlocksize]_vars

InitCharts ==
    LoadIdle /\ SectionIdle /\ MetricsIdle /\ ChartSummaries
        /\ ValidatorIdle /\ ReportIdle /\ OrchestratorIdle /\ AxisIdle
        /\ BlocksizeIdle /\ ChartTree /\ RecommendIdle /\ ReportOutIdle
        /\ MonitorIdle
NextCharts ==
    (\/ PlotQdScalability
     \/ PlotRwmix
     \/ PlotAccessDistribution
     \/ PlotEndurance
     \/ PlotAccessPattern)
        /\ UNCHANGED <<loadVars, sectionVars, metricsVars, validatorVars,
                      reportVars, orchestratorVars, axisVars, blocksizeVars,
                      recommendVars, reportOutVars, monitorVars>>
SpecCharts == InitCharts /\ [][NextCharts]_vars

InitRecommend ==
    ResolverIdle /\ LoadIdle /\ SectionIdle /\ MetricsIdle /\ UpliftIdle
        /\ ValidatorIdle /\ ReportIdle /\ OrchestratorIdle /\ AxisIdle
        /\ BlocksizeIdle /\ ChartIdle /\ RecommendSummaries /\ ReportOutIdle
        /\ MonitorIdle
NextRecommend ==
    GenerateRecommendations
        /\ UNCHANGED <<resolverVars, loadVars, sectionVars, metricsVars,
                      upliftVars, validatorVars, reportVars,
                      orchestratorVars, axisVars, blocksizeVars, chartVars,
                      reportOutVars, monitorVars>>
SpecRecommend == InitRecommend /\ [][NextRecommend]_vars

InitReport ==
    ResolverIdle /\ LoadIdle /\ SectionIdle /\ MetricsIdle /\ UpliftIdle
        /\ ReportRun /\ ReportIdle /\ OrchestratorIdle /\ AxisIdle
        /\ BlocksizeIdle /\ ChartIdle /\ RecommendIdle /\ ReportNew
        /\ MonitorIdle
NextReport ==
    (\/ CollectTestData
     \/ GenerateReport)
        /\ UNCHANGED <<resolverVars, loadVars, sectionVars, metricsVars,
                      upliftVars, orchestratorVars, axisVars, blocksizeVars,
                      chartVars, recommendVars, monitorVars>>
SpecReport == InitReport /\ [][NextReport]_vars

InitSample ==
    ResolverIdle /\ LoadIdle /\ SectionIdle /\ MetricsIdle /\ UpliftIdle
        /\ ValidatorIdle /\ ReportIdle /\ OrchestratorIdle /\ AxisIdle
        /\ BlocksizeIdle /\ ChartIdle /\ RecommendIdle /\ ReportOutIdle
        /\ MonitorFiles
NextSample ==
    MonitorOnce
        /\ UNCHANGED <<resolverVars, loadVars, sectionVars, metricsVars,
                      upliftVars, validatorVars, reportVars,
                      orchestratorVars, axisVars, blocksizeVars, chartVars,
                      recommendVars, reportOutVars>>
SpecSample == InitSample /\ [][NextSample]_vars

InitMonitor ==
    ResolverIdle /\ LoadIdle /\ SectionIdle /\ MetricsIdle /\ UpliftIdle
        /\ ValidatorIdle /\ ReportIdle /\ OrchestratorIdle /\ AxisIdle
        /\ BlocksizeIdle /\ ChartIdle /\ RecommendIdle /\ ReportOutIdle
        /\ MonitorStart
NextMonitor ==
    (\/ CheckPrivilege
     \/ CheckDevice
     \/ Expire
     \/ Sample
     \/ Sleep
     \/ Interrupt
     \/ PrintMonitorSummary
     \/ ExportStats)
        /\ UNCHANGED <<resolverVars, loadVars, sectionVars, metricsVars,
                      upliftVars, validatorVars, reportVars,
                      orchestratorVars, axisVars, blocksizeVars, chartVars,
                      recommendVars, reportOutVars>>
SpecMonitor == InitMonitor /\ [][NextMonitor]_vars

====
